---- MODULE Spec2Model ----
(***************************************************************************)
(* WinLamb message-dispatch core: store<idT>, base_msg_handler,            *)
(* base_window / base_dialog / base_native_control.                        *)
(*                                                                         *)
(* A handler table is a sequence of [id, func] records.  C++ index i of    *)
(* _handlers is position i+1 of the sequence; position 1 is the sentinel.  *)
(* A pointer into the table is a C++ index, and 0 stands for nullptr       *)
(* (store::find returns nullptr exactly when it stops at index 0).         *)
(***************************************************************************)
EXTENDS Integers, Sequences, FiniteSets, TLC

\* ---------------------------------------------------------------- bounds
MaxHandlers == 4
MaxIds == 3

\* Keys used by the stand-alone store: 0 is the sentinel's initial value.
StoreKeys == {0, 1, 2}
\* User callbacks (lambdas), told apart by a name.
StoreCbs == {"f", "g"}

\* ------------------------------------------------------- store<idT>
NullFunc == [kind |-> "null"]
UserFunc(cb) == [kind |-> "user", cb |-> cb]
\* the light wrapper of add(initializer_list): captures funcIdx
ThunkFunc(funcIdx) == [kind |-> "thunk", funcIdx |-> funcIdx]

\* store(): one element, the room for the sentinel
store_ctor == << [id |-> 0, func |-> NullFunc] >>

store_empty(h) == Len(h) <= 1

store_add_in_front(h, id, func) ==
  << h[1], [id |-> id, func |-> func] >> \o Tail(h)

\* add(idT id, F&& func)
store_add(h, id, func) == Append(h, [id |-> id, func |-> func])

RECURSIVE add_rest_all(_, _, _, _)
add_rest_all(h, ids, i, funcIdx) ==
  IF i > Len(ids) THEN h
  ELSE add_rest_all(store_add(h, ids[i], ThunkFunc(funcIdx)), ids, i + 1, funcIdx)

\* the loop of add(initializer_list): for (i = 1; i < ids.size(); ++i)
RECURSIVE add_rest(_, _, _, _)
add_rest(h, ids, i, funcIdx) ==
  IF i > Len(ids) THEN h
  ELSE IF ids[i] # ids[1]
       THEN add_rest(store_add(h, ids[i], ThunkFunc(funcIdx)), ids, i + 1, funcIdx)
       ELSE add_rest(h, ids, i + 1, funcIdx)

store_add_list_wrong_idx(h, ids, func) ==
  LET h1 == store_add(h, ids[1], func)
      funcIdx == Len(h1) - 2
  IN add_rest(h1, ids, 2, funcIdx)

\* add(std::initializer_list<idT> ids, F&& func)
store_add_list(h, ids, func) ==
  LET h1 == store_add(h, ids[1], func)
      funcIdx == Len(h1) - 1          \* _handlers.size() - 1
  IN add_rest(h1, ids, 2, funcIdx)

\* while (revRunner->id != id) --revRunner;   (r is a sequence position)
RECURSIVE rev_scan(_, _, _)
rev_scan(h, id, r) == IF h[r].id = id THEN r ELSE rev_scan(h, id, r - 1)

RECURSIVE fwd_scan(_, _, _)
fwd_scan(h, id, r) ==
  IF r > Len(h) THEN 1 ELSE IF h[r].id = id THEN r ELSE fwd_scan(h, id, r + 1)

store_find_first(h, id) ==
  LET hs == [h EXCEPT ![1].id = id]
  IN [handlers |-> hs, ptr |-> fwd_scan(hs, id, 2) - 1]

\* find(idT id): the table with the sentinel rewritten, and the pointer found
store_find(h, id) ==
  LET hs == [h EXCEPT ![1].id = id]
      revRunner == rev_scan(hs, id, Len(hs))
  IN [handlers |-> hs, ptr |-> revRunner - 1]

\* Calling the std::function at C++ index ptr: the user callbacks it runs, in
\* order.  A thunk runs this->_handlers[funcIdx].func(p).
RECURSIVE call_func(_, _)
call_func(h, ptr) ==
  LET f == h[ptr + 1].func
  IN CASE f.kind = "user" -> << f.cb >>
       [] f.kind = "thunk" -> IF f.funcIdx + 1 \in DOMAIN h
                               THEN call_func(h, f.funcIdx)
                               ELSE << "out_of_range" >>
       [] f.kind = "ui_thread" -> << "ui_thread" >>
       [] f.kind = "default" -> << f.name >>
       [] OTHER -> << "bad_function_call" >>

\* ------------------------------------------------- messages and inputs
WM_MOVE == 3
WM_SETFOCUS == 7
WM_CLOSE == 16
WM_QUIT == 18
WM_SETFONT == 48
WM_NOTIFY == 78
WM_NCCREATE == 129
WM_NCDESTROY == 130
WM_INITDIALOG == 272
WM_COMMAND == 273
\* WM_APP + 0x3FFF
WM_UI_THREAD == 49151
\* A 32-bit value is the pair << high word, low word >> (TLC's integers end
\* below 2^31).  0xc0def00d:
UiThreadMagic == << 49374, 61453 >>
Dword(hi, lo) == << hi % 65536, lo % 65536 >>

\* the pointer to the one wrapper instance of the model; 0 is nullptr
Self == 1

LOWORD(wp) == wp[2]

\* What a user lambda returns when it returns at all.
Ret(cb) == IF cb \in {"f", "wm_close", "wm_setfocus"} THEN 0 ELSE 7

\* store<std::pair<UINT_PTR,int>>::store(): the sentinel is the pair (0, 0)
store_ctor_pair == << [id |-> << 0, 0 >>, func |-> NullFunc] >>

\* the lambda that _default_msg_handlers() registers under WM_UI_THREAD
UiThreadFunc == [kind |-> "ui_thread"]

\* base_msg_handler(): three tables, and the handler of WM_UI_THREAD
base_msg_handler_ctor ==
  [msgs |-> store_add(store_ctor, WM_UI_THREAD, UiThreadFunc),
   cmds |-> store_ctor,
   nfys |-> store_ctor_pair]

\* base_native_control's own table (its _msgs member) in the same record shape
base_native_control_ctor ==
  [msgs |-> store_ctor, cmds |-> store_ctor, nfys |-> store_ctor_pair]

\* ------------------------------------------------- errors raised by lambdas
\* What a lambda can raise: a C++ class with the std classes it derives from,
\* or something that is no std::exception ("non_std": throw 42).
Bases(raised) ==
  CASE raised = "system_error" -> {"system_error", "runtime_error", "exception"}
    [] raised = "runtime_error" -> {"runtime_error", "exception"}
    [] raised = "invalid_argument" -> {"invalid_argument", "logic_error", "exception"}
    [] raised = "out_of_range" -> {"out_of_range", "logic_error", "exception"}
    [] raised = "logic_error" -> {"logic_error", "exception"}
    [] raised = "bad_function_call" -> {"bad_function_call", "exception"}
    [] raised = "bad_alloc" -> {"bad_alloc", "exception"}
    [] raised = "exception" -> {"exception"}
    [] OTHER -> {}

Raised == {"system_error", "runtime_error", "invalid_argument", "out_of_range",
           "logic_error", "bad_alloc", "non_std"}

CatchClauses_base_first ==
  << [class |-> "runtime_error", title |-> "Runtime exception", text |-> "what"],
     [class |-> "system_error", title |-> "System exception", text |-> "code_and_what"],
     [class |-> "logic_error", title |-> "Logic exception", text |-> "what"],
     [class |-> "invalid_argument", title |-> "Invalid argument exception", text |-> "what"],
     [class |-> "exception", title |-> "Exception", text |-> "what"] >>

\* the catch clauses of the inner try block, in the order they are written,
\* each with the caption of the MessageBox it shows and what its text is made
\* of: e.what(), preceded by e.code().value() in the first clause
CatchClauses ==
  << [class |-> "system_error", title |-> "System exception", text |-> "code_and_what"],
     [class |-> "runtime_error", title |-> "Runtime exception", text |-> "what"],
     [class |-> "invalid_argument", title |-> "Invalid argument exception", text |-> "what"],
     [class |-> "logic_error", title |-> "Logic exception", text |-> "what"],
     [class |-> "exception", title |-> "Exception", text |-> "what"] >>

NoFault == [boxes |-> << >>, texts |-> << >>, quit |-> << >>]

catch_all_excps_swallow(raised, catchAction) ==
  IF raised = "none" THEN NoFault
  ELSE LET hits == { i \in DOMAIN CatchClauses : CatchClauses[i].class \in Bases(raised) }
           first == CHOOSE i \in hits : \A j \in hits : i <= j
       IN [boxes |-> << IF hits = {} THEN "Unknown exception"
                        ELSE CatchClauses[first].title >>,
           texts |-> << IF hits = {} THEN "fixed" ELSE CatchClauses[first].text >>,
           quit |-> << >>]

catch_all_excps_always_quits(raised, catchAction) ==
  IF raised = "none" THEN NoFault
  ELSE LET hits == { i \in DOMAIN CatchClauses : CatchClauses[i].class \in Bases(raised) }
           first == CHOOSE i \in hits : \A j \in hits : i <= j
       IN [boxes |-> << IF hits = {} THEN "Unknown exception"
                        ELSE CatchClauses[first].title >>,
           texts |-> << IF hits = {} THEN "fixed" ELSE CatchClauses[first].text >>,
           quit |-> << -1 >>]

\* catch_all_excps(func, catchAction) when func raises `raised` ("none": it
\* returns): the first clause that matches shows its MessageBox and rethrows,
\* the outer catch (...) posts the quit message when catchAction is YES.
\* boxes: the captions shown; quit: the exit codes given to PostQuitMessage.
catch_all_excps(raised, catchAction) ==
  IF raised = "none" THEN NoFault
  ELSE LET hits == { i \in DOMAIN CatchClauses : CatchClauses[i].class \in Bases(raised) }
           first == CHOOSE i \in hits : \A j \in hits : i <= j
       IN [boxes |-> << IF hits = {} THEN "Unknown exception"
                        ELSE CatchClauses[first].title >>,
           texts |-> << IF hits = {} THEN "fixed" ELSE CatchClauses[first].text >>,
           quit |-> IF catchAction = "YES" THEN << -1 >> ELSE << >>]

\* What the lambda exec called raised: err when it is a user lambda that raises.
RaisedBy(ran, throws, err) ==
  IF ran = << >> THEN "none"
  ELSE IF ran[1] = "bad_function_call" THEN "bad_function_call"
  ELSE IF throws /\ ran[1] # "ui_thread" THEN err ELSE "none"

exec_msgs_only(T, msg, wp, lp, throws) ==
  LET r == store_find(T.msgs, msg)
      T1 == [T EXCEPT !.msgs = r.handlers]
  IN IF r.ptr # 0
     THEN LET ran == call_func(r.handlers, r.ptr)
              user == ran[1] \notin {"ui_thread", "bad_function_call"}
              threw == (user /\ throws) \/ ran[1] = "bad_function_call"
          IN [T |-> T1, has_value |-> TRUE, ran |-> ran,
              retVal |-> IF threw \/ ~user THEN 0 ELSE Ret(ran[1]),
              threw |-> threw, table |-> "msgs"]
     ELSE [T |-> T1, has_value |-> FALSE, ran |-> << >>, retVal |-> 0,
           threw |-> FALSE, table |-> "msgs"]

exec_msgs_first(T, msg, wp, lp, throws) ==
  LET gen == store_find(T.msgs, msg)
      table == IF gen.ptr # 0 THEN "msgs"
               ELSE IF msg = WM_COMMAND THEN "cmds"
               ELSE IF msg = WM_NOTIFY THEN "nfys" ELSE "msgs"
      r == IF table = "cmds" THEN store_find(T.cmds, LOWORD(wp))
           ELSE IF table = "nfys" THEN store_find(T.nfys, << lp.idFrom, lp.code >>)
           ELSE gen
      T1 == [T EXCEPT ![table] = r.handlers]
  IN IF r.ptr # 0
     THEN LET ran == call_func(r.handlers, r.ptr)
              user == ran[1] \notin {"ui_thread", "bad_function_call"}
              threw == (user /\ throws) \/ ran[1] = "bad_function_call"
          IN [T |-> T1, has_value |-> TRUE, ran |-> ran,
              retVal |-> IF threw \/ ~user THEN 0 ELSE Ret(ran[1]),
              threw |-> threw, table |-> table]
     ELSE [T |-> T1, has_value |-> FALSE, ran |-> << >>, retVal |-> 0,
           threw |-> FALSE, table |-> table]

exec_falls_back(T, msg, wp, lp, throws) ==
  LET own == IF msg = WM_COMMAND THEN store_find(T.cmds, LOWORD(wp))
             ELSE IF msg = WM_NOTIFY
                  THEN store_find(T.nfys, << lp.idFrom, lp.code >>)
                  ELSE store_find(T.msgs, msg)
      table == IF own.ptr # 0 /\ msg = WM_COMMAND THEN "cmds"
               ELSE IF own.ptr # 0 /\ msg = WM_NOTIFY THEN "nfys" ELSE "msgs"
      r == IF table = "msgs" THEN store_find(T.msgs, msg) ELSE own
      T1 == [T EXCEPT ![table] = r.handlers]
  IN IF r.ptr # 0
     THEN LET ran == call_func(r.handlers, r.ptr)
              user == ran[1] \notin {"ui_thread", "bad_function_call"}
              threw == (user /\ throws) \/ ran[1] = "bad_function_call"
          IN [T |-> T1, has_value |-> TRUE, ran |-> ran,
              retVal |-> IF threw \/ ~user THEN 0 ELSE Ret(ran[1]),
              threw |-> threw, table |-> table]
     ELSE [T |-> T1, has_value |-> FALSE, ran |-> << >>, retVal |-> 0,
           threw |-> FALSE, table |-> table]

\* base_msg_handler::exec(msg, wp, lp).  throws: whether the user lambda that
\* gets called raises.  The result carries the tables (find rewrites a sentinel).
exec(T, msg, wp, lp, throws) ==
  LET table == IF msg = WM_COMMAND THEN "cmds"
               ELSE IF msg = WM_NOTIFY THEN "nfys" ELSE "msgs"
      r == IF msg = WM_COMMAND THEN store_find(T.cmds, LOWORD(wp))
           ELSE IF msg = WM_NOTIFY
                THEN store_find(T.nfys, << lp.idFrom, lp.code >>)
                ELSE store_find(T.msgs, msg)
      T1 == [T EXCEPT ![table] = r.handlers]
  IN IF r.ptr # 0
     THEN LET ran == call_func(r.handlers, r.ptr)
              user == ran[1] \notin {"ui_thread", "bad_function_call"}
              threw == (user /\ throws) \/ ran[1] = "bad_function_call"
          IN [T |-> T1, has_value |-> TRUE, ran |-> ran,
              \* LRESULT retVal = 0; stays 0 when the lambda raised
              retVal |-> IF threw \/ ~user THEN 0 ELSE Ret(ran[1]),
              threw |-> threw, table |-> table]
     ELSE [T |-> T1, has_value |-> FALSE, ran |-> << >>, retVal |-> 0,
           threw |-> FALSE, table |-> table]

\* What a trampoline hands back to the OS.
ByHandler(v) == [by |-> "handler", val |-> v]
ByDefWindowProc == [by |-> "DefWindowProc"]
ByFalse == [by |-> "FALSE", val |-> 0]
ByDefSubclassProc == [by |-> "DefSubclassProc"]

NoExec(T) == [T |-> T, has_value |-> FALSE, ran |-> << >>, retVal |-> 0,
              threw |-> FALSE, table |-> "none"]

window_proc_keeps_slot(hw, T, sl, h, msg, wp, lp, throws) ==
  LET pSelf == IF msg = WM_NCCREATE THEN lp.lpCreateParams ELSE sl[h]
      sl1 == IF msg = WM_NCCREATE THEN [sl EXCEPT ![h] = pSelf] ELSE sl
      hw1 == IF msg = WM_NCCREATE THEN h ELSE hw
  IN IF pSelf = 0
     THEN [hWnd |-> hw1, slot |-> sl1, owner |-> FALSE, e |-> NoExec(T),
           pre |-> << >>, findsAt |-> << >>, slotAt |-> 0, ret |-> ByDefWindowProc]
     ELSE LET e == exec(T, msg, wp, lp, throws)
          IN [hWnd |-> IF msg = WM_NCDESTROY THEN 0 ELSE hw1,
              slot |-> sl1, owner |-> TRUE, e |-> e, pre |-> << >>,
              findsAt |-> << hw1 >>, slotAt |-> sl1[h],
              ret |-> IF e.has_value THEN ByHandler(e.retVal) ELSE ByDefWindowProc]

\* base_window::_window_proc(hWnd, msg, wp, lp) on the instance whose handle
\* member is hw and whose tables are T; sl is the GWLP_USERDATA slot of every
\* window.
window_proc(hw, T, sl, h, msg, wp, lp, throws) ==
  LET pSelf == IF msg = WM_NCCREATE THEN lp.lpCreateParams ELSE sl[h]
      sl1 == IF msg = WM_NCCREATE THEN [sl EXCEPT ![h] = pSelf] ELSE sl
      hw1 == IF msg = WM_NCCREATE THEN h ELSE hw
  IN IF pSelf = 0
     THEN [hWnd |-> hw1, slot |-> sl1, owner |-> FALSE, e |-> NoExec(T),
           pre |-> << >>, findsAt |-> << >>, slotAt |-> 0, ret |-> ByDefWindowProc]
     ELSE LET e == exec(T, msg, wp, lp, throws)
          IN [hWnd |-> IF msg = WM_NCDESTROY THEN 0 ELSE hw1,
              slot |-> IF msg = WM_NCDESTROY THEN [sl1 EXCEPT ![h] = 0] ELSE sl1,
              owner |-> TRUE, e |-> e, pre |-> << >>,
              \* the value of _hWnd when exec looks the message up
              findsAt |-> << hw1 >>, slotAt |-> sl1[h],
              ret |-> IF e.has_value THEN ByHandler(e.retVal) ELSE ByDefWindowProc]

dialog_proc_clears_first(hw, T, sl, h, msg, wp, lp, throws) ==
  LET init == msg = WM_INITDIALOG
      pSelf == IF init THEN lp.ptr ELSE sl[h]
      sl1 == IF init THEN [sl EXCEPT ![h] = pSelf] ELSE sl
      nested == IF init /\ pSelf # 0
                THEN exec(T, WM_SETFONT, Dword(0, 0), 0, throws) ELSE NoExec(T)
      hw1 == IF init THEN h ELSE IF msg = WM_NCDESTROY THEN 0 ELSE hw
  IN IF pSelf = 0
     THEN [hWnd |-> hw1, slot |-> sl1, owner |-> FALSE, e |-> NoExec(T),
           pre |-> << >>, findsAt |-> << >>, slotAt |-> 0, ret |-> ByFalse]
     ELSE LET e == exec(nested.T, msg, wp, lp, throws)
          IN [hWnd |-> hw1,
              slot |-> IF msg = WM_NCDESTROY THEN [sl1 EXCEPT ![h] = 0] ELSE sl1,
              owner |-> TRUE, e |-> e, pre |-> nested.ran,
              findsAt |-> IF init THEN << hw, hw1 >> ELSE << hw1 >>,
              slotAt |-> sl1[h],
              ret |-> IF e.has_value THEN ByHandler(e.retVal) ELSE ByFalse]

\* base_dialog::_dialog_proc.  On WM_INITDIALOG, _set_ui_font_on_children sends
\* WM_SETFONT to the dialog itself after the slot was written and before the
\* handle member is: that nested call goes through exec (pre: what it ran).
dialog_proc(hw, T, sl, h, msg, wp, lp, throws) ==
  LET init == msg = WM_INITDIALOG
      pSelf == IF init THEN lp.ptr ELSE sl[h]
      sl1 == IF init THEN [sl EXCEPT ![h] = pSelf] ELSE sl
      nested == IF init /\ pSelf # 0
                THEN exec(T, WM_SETFONT, Dword(0, 0), 0, throws) ELSE NoExec(T)
      hw1 == IF init THEN h ELSE hw
  IN IF pSelf = 0
     THEN [hWnd |-> hw1, slot |-> sl1, owner |-> FALSE, e |-> NoExec(T),
           pre |-> << >>, findsAt |-> << >>, slotAt |-> 0, ret |-> ByFalse]
     ELSE LET e == exec(nested.T, msg, wp, lp, throws)
          IN [hWnd |-> IF msg = WM_NCDESTROY THEN 0 ELSE hw1,
              slot |-> IF msg = WM_NCDESTROY THEN [sl1 EXCEPT ![h] = 0] ELSE sl1,
              owner |-> TRUE, e |-> e, pre |-> nested.ran,
              \* the nested dispatch looks WM_SETFONT up before _hWnd is stored
              findsAt |-> IF init THEN << hw, hw1 >> ELSE << hw1 >>,
              \* and the slot of the window when exec runs for msg
              slotAt |-> sl1[h],
              \* ret.value_or(FALSE)
              ret |-> IF e.has_value THEN ByHandler(e.retVal) ELSE ByFalse]

subclass_proc_returns_early(hw, T, sub, h, msg, wp, lp, refData, throws) ==
  LET look == refData # 0 /\ hw # 0
      r == IF look THEN store_find(T.msgs, msg) ELSE [handlers |-> T.msgs, ptr |-> 0]
      ran == IF r.ptr # 0 THEN call_func(r.handlers, r.ptr) ELSE << >>
  IN [hWnd |-> hw,
      T |-> [T EXCEPT !.msgs = r.handlers],
      sub |-> IF msg = WM_NCDESTROY /\ r.ptr = 0 THEN [sub EXCEPT ![h] = FALSE] ELSE sub,
      owner |-> look, ran |-> ran, threw |-> r.ptr # 0 /\ throws,
      findsAt |-> IF look THEN << hw >> ELSE << >>,
      ret |-> IF r.ptr # 0
              THEN ByHandler(IF throws THEN 0 ELSE Ret(ran[1]))
              ELSE ByDefSubclassProc]

\* base_native_control::_subclass_proc(hWnd, msg, wp, lp, idSubclass, refData):
\* sub is the installed-subclass flag of every window.
subclass_proc(hw, T, sub, h, msg, wp, lp, refData, throws) ==
  LET look == refData # 0 /\ hw # 0
      r == IF look THEN store_find(T.msgs, msg) ELSE [handlers |-> T.msgs, ptr |-> 0]
      ran == IF r.ptr # 0 THEN call_func(r.handlers, r.ptr) ELSE << >>
  IN [hWnd |-> hw,
      T |-> [T EXCEPT !.msgs = r.handlers],
      sub |-> IF msg = WM_NCDESTROY THEN [sub EXCEPT ![h] = FALSE] ELSE sub,
      owner |-> look, ran |-> ran, threw |-> r.ptr # 0 /\ throws,
      findsAt |-> IF look THEN << hw >> ELSE << >>,
      ret |-> IF r.ptr # 0
              THEN ByHandler(IF throws THEN 0 ELSE Ret(ran[1]))
              ELSE ByDefSubclassProc]

VARIABLES
  st,       \* a store<UINT>::_handlers on its own
  stLast,   \* the last call made on st and what it returned
  stLatest, \* for every key, the callback of the latest add under it, or "none"
  kind,     \* which class the instance is: "window", "dialog" or "control"
  hWnd,     \* the instance's _hWnd member (0: nullptr)
  T,        \* the instance's handler tables: [msgs, cmds, nfys]
  wnd,      \* per handle, the OS window: "none", "pending", "alive", "gone"
  slot,     \* per handle, GWLP_USERDATA / DWLP_USER (0 or Self)
  sub,      \* per handle, whether _subclass_proc is installed on it
  phase,    \* "UNCREATED", "LIVE" or "DESTROYED", from the history of hWnd
  latest,   \* per table and key, the lambda of the latest accepted registration
  last,     \* the last call or callback of the instance and its outcome
  calls,    \* per run_thread_ui call of a worker thread: how far it got
  uiCur,    \* the call whose callback the UI thread is running now (0: none)
  det,      \* the last run_thread_detached call and what its thread did
  classes,  \* the OS's window classes: per name, its metadata (0: no such class)
  rcLast,   \* the last register_class call and its outcome
  rcCalls,  \* how many register_class calls were made
  hFile,    \* a wl::file's _hFile member (0: nullptr)
  fsize,    \* the size of the file on disk
  fptr,     \* the file pointer of the open handle
  fLast,    \* the last call on the file and its outcome
  accels,   \* an accel_table's _accels vector
  hAccel,   \* its _hAccel member (0: nullptr)
  acCalled, \* whether haccel() has returned on it since construction / destroy()
  acBuilt,  \* how many tables CreateAcceleratorTableW made for it since then
  acLast,   \* the last call on the accel_table and its outcome
  obj,      \* per com::lib object: its life, its _running member, its history
  outstanding, \* the thread's CoInitialize calls not yet matched by CoUninitialize
  comLast,  \* the last call on a com::lib object and the OS calls it made
  mSz,      \* a file_mapped's _sz member (0 while no file is mapped)
  mBuf,     \* the size of the std::vector<BYTE> that read_to_buffer is given
  mLast,    \* the last call on the file_mapped and its outcome
  mdT,      \* a window_modal's handler tables
  mdHwnd,   \* its _base._hWnd member (0: nullptr)
  mdSlot,   \* GWLP_USERDATA of the modal's window (a function on its one handle)
  parentEnabled, \* whether the parent window takes input
  pc,       \* where show() is: "idle", "created", "loop", "returned", "raised"
  queue,    \* the messages posted to the UI thread and not yet retrieved
  mdLast    \* the last step of show() or of its loop, and what it did

storeVars == << st, stLast, stLatest >>
instVars == << kind, hWnd, T, wnd, slot, sub, phase, latest, last >>
threadVars == << calls, uiCur >>
classVars == << classes, rcLast, rcCalls >>
fileVars == << hFile, fsize, fptr, fLast >>
accelVars == << accels, hAccel, acCalled, acBuilt, acLast >>
comVars == << obj, outstanding, comLast >>
mapVars == << mSz, mBuf, mLast >>
modalVars == << mdT, mdHwnd, mdSlot, parentEnabled, pc, queue, mdLast >>
moreVars == << mapVars, modalVars >>
auxVars == << det, classVars, fileVars, accelVars, comVars, moreVars >>

\* ------------------------------------------------------- bounds, inputs
MaxRegs == 1
MaxWindows == 2
MaxCalls == 2

Calls == 1..MaxCalls

Handles == 1..MaxWindows
Cbs == {"f", "g"}
MsgKeys == {WM_SETFONT, WM_COMMAND, WM_NCDESTROY}
CmdKeys == {2}
NfyKeys == {<< 1, -2 >>}
MsgKeyLists == {<< WM_SETFONT, WM_NCDESTROY >>}
CmdKeyLists == {<< 1, 2 >>}
NfyKeyLists == {<< << 1, -2 >>, << 2, -2 >> >>}
AllKeys == ({"msgs"} \X (MsgKeys \cup {WM_UI_THREAD, WM_NCCREATE, WM_INITDIALOG, WM_NOTIFY}))
             \cup ({"cmds"} \X {1, 2}) \cup ({"nfys"} \X {<< 1, -2 >>, << 2, -2 >>})

LParam(idFrom, code, cp, ptr) ==
  [idFrom |-> idFrom, code |-> code, lpCreateParams |-> cp, ptr |-> ptr]
NoLParam == LParam(0, 0, 0, 0)

StoreInit ==
  /\ st = store_ctor
  /\ stLast = [op |-> "ctor"]
  /\ stLatest = [k \in StoreKeys |-> "none"]

InstInit ==
  /\ kind \in {"window", "dialog", "control"}
  /\ hWnd = 0
  /\ T = IF kind = "control" THEN base_native_control_ctor ELSE base_msg_handler_ctor
  /\ wnd = [h \in Handles |-> "none"]
  /\ slot = [h \in Handles |-> 0]
  /\ sub = [h \in Handles |-> FALSE]
  /\ phase = "UNCREATED"
  /\ latest = [k \in AllKeys |->
                 IF kind # "control" /\ k = << "msgs", WM_UI_THREAD >>
                 THEN "ui_thread" ELSE "none"]
  /\ last = [op |-> "ctor"]

NoCall ==
  [target |-> 0, liveAtCall |-> FALSE, msg |-> "none", returned |-> FALSE,
   cb |-> "not_run", runs |-> 0, ranOn |-> "none", pack |-> "none",
   regAtDispatch |-> "none", fault |-> NoFault]

ThreadInit ==
  /\ calls = [c \in Calls |-> NoCall]
  /\ uiCur = 0
  /\ det = [op |-> "none"]

ClassNames == {"A", "B"}
Styles == {1, 2}

ClassInit ==
  /\ classes = [n \in ClassNames |-> 0]
  /\ rcLast = [op |-> "none"]
  /\ rcCalls = 0

FileInit ==
  /\ hFile = 0
  /\ fsize = 0
  /\ fptr = 0
  /\ fLast = [op |-> "ctor"]

AccelInit ==
  /\ accels = << >>
  /\ hAccel = 0
  /\ acCalled = FALSE
  /\ acBuilt = 0
  /\ acLast = [op |-> "ctor"]

Objects == {1, 2}

ComInit ==
  /\ obj = [o \in Objects |-> [life |-> "unborn", running |-> FALSE, moved |-> FALSE,
                               oslog |-> "none"]]
  /\ outstanding = 0
  /\ comLast = [op |-> "none"]

MapInit ==
  /\ mSz = 0
  /\ mBuf = 0
  /\ mLast = [op |-> "ctor"]

\* the modal's one window handle
ModalHandle == 1

\* the lambdas that window_modal::_default_msg_handlers() registers
DefaultFunc(name) == [kind |-> "default", name |-> name]

\* window_modal(): the tables of its base_window, and its two default handlers
window_modal_ctor ==
  [base_msg_handler_ctor EXCEPT
     !.msgs = store_add(store_add(@, WM_CLOSE, DefaultFunc("wm_close")),
                        WM_SETFOCUS, DefaultFunc("wm_setfocus"))]

ModalInit ==
  /\ mdT = window_modal_ctor
  /\ mdHwnd = 0
  /\ mdSlot = [h \in {ModalHandle} |-> 0]
  /\ parentEnabled = TRUE
  /\ pc = "idle"
  /\ queue = << >>
  /\ mdLast = [op |-> "ctor"]

AuxInit == ClassInit /\ FileInit /\ AccelInit /\ ComInit /\ MapInit /\ ModalInit

\* the lifecycle state as the specification defines it, from the handle member
PhaseAfter(hw) ==
  IF hw # 0 THEN "LIVE" ELSE IF phase = "UNCREATED" THEN "UNCREATED" ELSE "DESTROYED"

\* The registration calls a table took: each stored one user lambda.
Lambdas(h) == Cardinality({ i \in DOMAIN h : h[i].func.kind = "user" })
RegCalls(t) == Lambdas(t.msgs) + Lambdas(t.cmds) + Lambdas(t.nfys)
Room == RegCalls(T) < MaxRegs

\* ------------------------------------------------------- store on its own
\* store::add(id, func) called with a user lambda
StAdd(id, cb) ==
  /\ Len(st) < MaxHandlers + 1
  /\ st' = store_add(st, id, UserFunc(cb))
  /\ stLast' = [op |-> "add", ids |-> << id >>, cb |-> cb, before |-> Len(st)]
  /\ stLatest' = [stLatest EXCEPT ![id] = cb]
  /\ UNCHANGED << auxVars, instVars, threadVars >>

\* store::add({ids...}, func) called with a user lambda
StAddList(ids, cb) ==
  /\ Len(st) + Len(ids) <= MaxHandlers + 1
  /\ st' = store_add_list(st, ids, UserFunc(cb))
  /\ stLast' = [op |-> "add_list", ids |-> ids, cb |-> cb, before |-> Len(st)]
  /\ stLatest' = [k \in StoreKeys |->
                    IF \E i \in DOMAIN ids : ids[i] = k THEN cb ELSE stLatest[k]]
  /\ UNCHANGED << auxVars, instVars, threadVars >>

\* store::find(id); the caller invokes what it got
StFind(id) ==
  LET r == store_find(st, id)
  IN /\ st' = r.handlers
     /\ stLast' = [op |-> "find", id |-> id, ptr |-> r.ptr,
                   ran |-> IF r.ptr = 0 THEN << >> ELSE call_func(r.handlers, r.ptr)]
     /\ UNCHANGED stLatest
     /\ UNCHANGED << auxVars, instVars, threadVars >>

IdLists == UNION { [1..n -> StoreKeys] : n \in 1..MaxIds }

StoreNext ==
  \/ \E id \in StoreKeys, cb \in StoreCbs : StAdd(id, cb)
  \/ \E ids \in IdLists, cb \in StoreCbs : StAddList(ids, cb)
  \/ \E id \in StoreKeys : StFind(id)

\* ------------------------------------------------------- registration
\* The UI thread is inside CreateWindowEx / CreateDialogParam / DialogBoxParam
\* until the creation message was delivered: it makes no other call meanwhile.
\* Nor does it while it runs the callback of a run_thread_ui call.
Pending == (\E h \in Handles : wnd[h] = "pending") \/ uiCur # 0
HasFree == \E h \in Handles : wnd[h] = "none"
FreeHandle == CHOOSE h \in Handles : wnd[h] = "none" /\ \A g \in Handles : g < h => wnd[g] # "none"

\* throw std::logic_error(...) and the like: nothing but the outcome changes
Throws(op, err) ==
  /\ last' = [op |-> op, err |-> err, osCalled |-> FALSE]
  /\ UNCHANGED << kind, hWnd, T, wnd, slot, sub, phase, latest >>
  /\ UNCHANGED << auxVars, storeVars, threadVars >>

\* the registration went through to the table
Registered(op, table, ids, cb, handlers) ==
  /\ Room
  /\ T' = [T EXCEPT ![table] = handlers]
  /\ latest' = [k \in AllKeys |->
                  IF k[1] = table /\ \E i \in DOMAIN ids : ids[i] = k[2]
                  THEN cb ELSE latest[k]]
  /\ last' = [op |-> op, err |-> "none", osCalled |-> FALSE]
  /\ UNCHANGED << kind, hWnd, wnd, slot, sub, phase >>
  /\ UNCHANGED << auxVars, storeVars, threadVars >>

on_message_unchecked(msg, cb) ==
  /\ kind \in {"window", "dialog"} /\ ~Pending
  /\ Registered("on_message", "msgs", << msg >>, cb, store_add(T.msgs, msg, UserFunc(cb)))

\* base_window::on_message(UINT, F&&), base_dialog::on_message(UINT, F&&)
on_message(msg, cb) ==
  /\ kind \in {"window", "dialog"} /\ ~Pending
  /\ IF hWnd # 0 THEN Throws("on_message", "logic_error")
     ELSE Registered("on_message", "msgs", << msg >>, cb,
                     store_add(T.msgs, msg, UserFunc(cb)))

\* on_message(std::initializer_list<UINT>, F&&)
on_message_list(msgs, cb) ==
  /\ kind \in {"window", "dialog"} /\ ~Pending
  /\ IF hWnd # 0 THEN Throws("on_message_list", "logic_error")
     ELSE Registered("on_message_list", "msgs", msgs, cb,
                     store_add_list(T.msgs, msgs, UserFunc(cb)))

\* on_command(WORD, F&&)
on_command(cmd, cb) ==
  /\ kind \in {"window", "dialog"} /\ ~Pending
  /\ IF hWnd # 0 THEN Throws("on_command", "logic_error")
     ELSE Registered("on_command", "cmds", << cmd >>, cb,
                     store_add(T.cmds, cmd, UserFunc(cb)))

\* on_command(std::initializer_list<WORD>, F&&)
on_command_list(cmds, cb) ==
  /\ kind \in {"window", "dialog"} /\ ~Pending
  /\ IF hWnd # 0 THEN Throws("on_command_list", "logic_error")
     ELSE Registered("on_command_list", "cmds", cmds, cb,
                     store_add_list(T.cmds, cmds, UserFunc(cb)))

\* on_notify(UINT_PTR idFrom, int code, F&&)
on_notify(idFrom, code, cb) ==
  /\ kind \in {"window", "dialog"} /\ ~Pending
  /\ IF hWnd # 0 THEN Throws("on_notify", "logic_error")
     ELSE Registered("on_notify", "nfys", << << idFrom, code >> >>, cb,
                     store_add(T.nfys, << idFrom, code >>, UserFunc(cb)))

\* on_notify(std::initializer_list<std::pair<UINT_PTR,int>>, F&&)
on_notify_list(idFromAndCodes, cb) ==
  /\ kind \in {"window", "dialog"} /\ ~Pending
  /\ IF hWnd # 0 THEN Throws("on_notify_list", "logic_error")
     ELSE Registered("on_notify_list", "nfys", idFromAndCodes, cb,
                     store_add_list(T.nfys, idFromAndCodes, UserFunc(cb)))

\* base_native_control::on_subclass_message(UINT, F&&)
on_subclass_message(msg, cb) ==
  /\ kind = "control" /\ ~Pending
  /\ IF hWnd # 0 THEN Throws("on_subclass_message", "logic_error")
     ELSE Registered("on_subclass_message", "msgs", << msg >>, cb,
                     store_add(T.msgs, msg, UserFunc(cb)))

\* base_native_control::on_subclass_message(std::initializer_list<UINT>, F&&)
on_subclass_message_list(msgs, cb) ==
  /\ kind = "control" /\ ~Pending
  /\ IF hWnd # 0 THEN Throws("on_subclass_message_list", "logic_error")
     ELSE Registered("on_subclass_message_list", "msgs", msgs, cb,
                     store_add_list(T.msgs, msgs, UserFunc(cb)))

RegOps == {"on_message", "on_message_list", "on_command", "on_command_list",
           "on_notify", "on_notify_list", "on_subclass_message",
           "on_subclass_message_list"}

\* ------------------------------------------------------- creation
\* the OS creation call ran: it made a window (ok) or returned failure
OsCreate(op, ok, errIfFailed) ==
  /\ ok => HasFree
  /\ wnd' = IF ok THEN [wnd EXCEPT ![FreeHandle] = "pending"] ELSE wnd
  /\ last' = [op |-> op, err |-> IF ok THEN "none" ELSE errIfFailed, osCalled |-> TRUE]
  /\ UNCHANGED << kind, hWnd, T, slot, sub, phase, latest >>
  /\ UNCHANGED << auxVars, storeVars, threadVars >>

create_window_unchecked(ok) ==
  /\ kind = "window" /\ ~Pending
  /\ OsCreate("create_window", ok, "system_error")

\* base_window::create_window(...): ok is whether CreateWindowExW makes a window
create_window(ok) ==
  /\ kind = "window" /\ ~Pending
  /\ IF hWnd # 0 THEN Throws("create_window", "logic_error")
     ELSE OsCreate("create_window", ok, "system_error")

\* base_dialog::_creation_checks(dialogId): the error it raises, or "none"
creation_checks(hw, dialogId) ==
  IF hw # 0 THEN "logic_error"
  ELSE IF dialogId = 0 THEN "logic_error" ELSE "none"

\* base_dialog::create_dialog_param(hInst, parent, dialogId)
create_dialog_param(dialogId, ok) ==
  /\ kind = "dialog" /\ ~Pending
  /\ IF creation_checks(hWnd, dialogId) # "none"
     THEN Throws("create_dialog_param", creation_checks(hWnd, dialogId))
     ELSE OsCreate("create_dialog_param", ok, "system_error")

\* base_dialog::dialog_box_param(hInst, parent, dialogId): ok is whether
\* DialogBoxParamW makes the dialog (it returns -1 when it does not), lerr is
\* what GetLastError() gives after it, which is what the code compares with -1
\* (as a DWORD); err is what the call ends with
dialog_box_param(dialogId, ok, lerr) ==
  /\ kind = "dialog" /\ ~Pending
  /\ IF creation_checks(hWnd, dialogId) # "none"
     THEN Throws("dialog_box_param", creation_checks(hWnd, dialogId))
     ELSE /\ ok => HasFree
          /\ wnd' = IF ok THEN [wnd EXCEPT ![FreeHandle] = "pending"] ELSE wnd
          /\ last' = [op |-> "dialog_box_param",
                       err |-> IF lerr = Dword(-1, -1) THEN "system_error" ELSE "none",
                       osCalled |-> TRUE, osOk |-> ok, lerr |-> lerr]
          /\ UNCHANGED << kind, hWnd, T, slot, sub, phase, latest >>
          /\ UNCHANGED << auxVars, storeVars, threadVars >>

install_subclass_always(t, s, h) ==
  IF h # 0 THEN [s EXCEPT ![h] = TRUE] ELSE s

\* base_native_control::_install_subclass_if_needed() on the window h
\* (SetWindowSubclass on no window, h = 0, installs nothing)
install_subclass_if_needed(t, s, h) ==
  IF ~store_empty(t.msgs) /\ h # 0 THEN [s EXCEPT ![h] = TRUE] ELSE s

\* base_native_control::create_window(parent, ...): parent is the pointer given
control_create_window(parent, ok) ==
  /\ kind = "control" /\ ~Pending
  /\ IF hWnd # 0 THEN Throws("control_create_window", "logic_error")
     ELSE IF parent = 0 THEN Throws("control_create_window", "invalid_argument")
     ELSE IF ~ok
          THEN /\ last' = [op |-> "control_create_window", err |-> "system_error",
                           osCalled |-> TRUE]
               /\ UNCHANGED << kind, hWnd, T, wnd, slot, sub, phase, latest >>
               /\ UNCHANGED << auxVars, storeVars, threadVars >>
          ELSE /\ HasFree
               /\ wnd' = [wnd EXCEPT ![FreeHandle] = "alive"]
               /\ hWnd' = FreeHandle
               /\ sub' = install_subclass_if_needed(T, sub, FreeHandle)
               /\ phase' = PhaseAfter(FreeHandle)
               /\ last' = [op |-> "control_create_window", err |-> "none",
                           osCalled |-> TRUE]
               /\ UNCHANGED << kind, T, slot, latest >>
               /\ UNCHANGED << auxVars, storeVars, threadVars >>

\* base_native_control::assign(parent, ctrlId): found is whether GetDlgItem
\* finds a control with that id in the parent (the dialog made it)
assign(parent, found) ==
  /\ kind = "control" /\ ~Pending
  /\ IF hWnd # 0 THEN Throws("assign", "logic_error")
     ELSE IF parent = 0 THEN Throws("assign", "invalid_argument")
     ELSE /\ found => HasFree
          /\ LET h == IF found THEN FreeHandle ELSE 0
             IN /\ wnd' = IF found THEN [wnd EXCEPT ![h] = "alive"] ELSE wnd
                /\ hWnd' = h
                /\ sub' = install_subclass_if_needed(T, sub, h)
                /\ phase' = PhaseAfter(h)
          /\ last' = [op |-> "assign", err |-> "none", osCalled |-> TRUE]
          /\ UNCHANGED << kind, T, slot, latest >>
          /\ UNCHANGED << auxVars, storeVars, threadVars >>

CreateOps == {"create_window", "create_dialog_param", "dialog_box_param",
              "control_create_window"}

\* ------------------------------------------------------- message delivery
CreationMsg == IF kind = "window" THEN WM_NCCREATE ELSE WM_INITDIALOG

Message(msg, wp, lp) == [msg |-> msg, wp |-> wp, lp |-> lp]

\* messages the OS sends to a window besides its creation message
PlainMessages ==
  { Message(WM_SETFONT, Dword(0, 0), NoLParam),
    Message(WM_NCDESTROY, Dword(0, 0), NoLParam),
    Message(WM_COMMAND, Dword(1, 2), NoLParam),
    Message(WM_NOTIFY, Dword(0, 0), LParam(1, -2, 0, 0)) }
WindowMessages == PlainMessages \cup {Message(WM_NCCREATE, Dword(0, 0), LParam(0, 0, Self, 0))}
DialogMessages == PlainMessages \cup {Message(WM_INITDIALOG, Dword(0, 0), LParam(0, 0, 0, Self))}

\* what the OS does to the window h when it sends it msg
WndAfter(h, msg) ==
  IF msg = CreationMsg /\ wnd[h] = "pending" THEN [wnd EXCEPT ![h] = "alive"]
  ELSE IF msg = WM_NCDESTROY THEN [wnd EXCEPT ![h] = "gone"] ELSE wnd

Outcome(h, m, r, e) ==
  [op |-> "deliver", h |-> h, m |-> m, hWndBefore |-> hWnd, wndBefore |-> wnd[h],
   owner |-> r.owner, ran |-> e.ran, pre |-> r.pre, threw |-> e.threw,
   has_value |-> e.has_value, ret |-> r.ret, table |-> e.table,
   findsAt |-> r.findsAt, slotAt |-> r.slotAt]

\* the errors the model lets a lambda raise during a delivery
SomeRaised == {"invalid_argument", "non_std"}
ErrsOf(throws) == IF throws THEN SomeRaised ELSE {"none"}

\* what the protected regions of one delivery showed and posted: preFault for
\* the nested WM_SETFONT dispatch of a dialog, fault for the message itself
Faults(pre, ran, throws, err) ==
  [preFault |-> catch_all_excps(RaisedBy(pre, throws, err), "YES"),
   fault |-> catch_all_excps(RaisedBy(ran, throws, err), "YES"),
   raised |-> RaisedBy(ran, throws, err)]

\* the OS calls the window procedure of window h with message m; throws says
\* whether the lambda that gets called (if one is) raises
DeliverWindow(h, m, throws) ==
  /\ kind = "window" /\ uiCur = 0
  /\ wnd[h] # "none"
  /\ m.msg = WM_NCCREATE => wnd[h] = "pending"
  /\ m.msg = WM_NCDESTROY => wnd[h] = "alive"
  /\ LET r == window_proc(hWnd, T, slot, h, m.msg, m.wp, m.lp, throws)
     IN /\ throws => r.e.has_value
        /\ hWnd' = r.hWnd
        /\ T' = r.e.T
        /\ slot' = r.slot
        /\ phase' = PhaseAfter(r.hWnd)
        /\ \E err \in ErrsOf(throws) :
             last' = Outcome(h, m, r, r.e) @@ Faults(r.pre, r.e.ran, throws, err)
  /\ wnd' = WndAfter(h, m.msg)
  /\ UNCHANGED << kind, sub, latest >>
  /\ UNCHANGED << auxVars, storeVars, threadVars >>

\* the OS calls the dialog procedure of dialog h with message m
DeliverDialog(h, m, throws) ==
  /\ kind = "dialog" /\ uiCur = 0
  /\ wnd[h] # "none"
  /\ m.msg = WM_INITDIALOG => wnd[h] = "pending"
  /\ m.msg = WM_NCDESTROY => wnd[h] = "alive"
  /\ LET r == dialog_proc(hWnd, T, slot, h, m.msg, m.wp, m.lp, throws)
     IN /\ throws => r.e.has_value
        /\ hWnd' = r.hWnd
        /\ T' = r.e.T
        /\ slot' = r.slot
        /\ phase' = PhaseAfter(r.hWnd)
        /\ \E err \in ErrsOf(throws) :
             last' = Outcome(h, m, r, r.e) @@ Faults(r.pre, r.e.ran, throws, err)
  /\ wnd' = WndAfter(h, m.msg)
  /\ UNCHANGED << kind, sub, latest >>
  /\ UNCHANGED << auxVars, storeVars, threadVars >>

\* the OS calls the installed subclass procedure of control h with message m
DeliverControl(h, m, throws) ==
  /\ kind = "control"
  /\ wnd[h] = "alive" /\ sub[h]
  /\ LET r == subclass_proc(hWnd, T, sub, h, m.msg, m.wp, m.lp, Self, throws)
     IN /\ throws => r.ran # << >>
        /\ hWnd' = r.hWnd
        /\ T' = r.T
        /\ sub' = r.sub
        /\ phase' = PhaseAfter(r.hWnd)
        /\ \E err \in ErrsOf(throws) :
             last' = [op |-> "deliver", h |-> h, m |-> m, hWndBefore |-> hWnd,
                      wndBefore |-> wnd[h], owner |-> r.owner, ran |-> r.ran,
                      pre |-> << >>, threw |-> r.threw, has_value |-> r.ran # << >>,
                      ret |-> r.ret, table |-> "msgs", findsAt |-> r.findsAt,
                      slotAt |-> 0]
                     @@ Faults(<< >>, r.ran, throws, err)
  /\ wnd' = WndAfter(h, m.msg)
  /\ UNCHANGED << kind, slot, latest >>
  /\ UNCHANGED << auxVars, storeVars, threadVars >>

\* the OS destroys a control that carries no subclass: no code of the wrapper runs
ControlDestroyed(h) ==
  /\ kind = "control"
  /\ wnd[h] = "alive" /\ ~sub[h]
  /\ wnd' = [wnd EXCEPT ![h] = "gone"]
  /\ last' = [op |-> "os_destroy", h |-> h]
  /\ UNCHANGED << kind, hWnd, T, slot, sub, phase, latest >>
  /\ UNCHANGED << auxVars, storeVars, threadVars >>

Next ==
  \/ \E msg \in MsgKeys, cb \in Cbs : on_message(msg, cb)
  \/ \E msgs \in MsgKeyLists, cb \in Cbs : on_message_list(msgs, cb)
  \/ \E cmd \in CmdKeys, cb \in Cbs : on_command(cmd, cb)
  \/ \E cmds \in CmdKeyLists, cb \in Cbs : on_command_list(cmds, cb)
  \/ \E k \in NfyKeys, cb \in Cbs : on_notify(k[1], k[2], cb)
  \/ \E ks \in NfyKeyLists, cb \in Cbs : on_notify_list(ks, cb)
  \/ \E msg \in MsgKeys, cb \in Cbs : on_subclass_message(msg, cb)
  \/ \E msgs \in MsgKeyLists, cb \in Cbs : on_subclass_message_list(msgs, cb)
  \/ \E ok \in BOOLEAN : create_window(ok)
  \/ \E dialogId \in {0, 1}, ok \in BOOLEAN : create_dialog_param(dialogId, ok)
  \/ \E dialogId \in {0, 1}, ok \in BOOLEAN,
        lerr \in {Dword(0, 0), Dword(0, 1400), Dword(65535, 65535)} :
          dialog_box_param(dialogId, ok, lerr)
  \/ \E parent \in {0, Self}, ok \in BOOLEAN : control_create_window(parent, ok)
  \/ \E parent \in {0, Self}, found \in BOOLEAN : assign(parent, found)
  \/ \E h \in Handles, m \in WindowMessages, throws \in BOOLEAN : DeliverWindow(h, m, throws)
  \/ \E h \in Handles, m \in DialogMessages, throws \in BOOLEAN : DeliverDialog(h, m, throws)
  \/ \E h \in Handles, m \in PlainMessages, throws \in BOOLEAN : DeliverControl(h, m, throws)
  \/ \E h \in Handles : ControlDestroyed(h)

\* ------------------------------------------------------- run_thread_ui
\* SendMessageW from another thread: the message waits for the UI thread when
\* the handle names a window, and the call fails at once when it names none.
SendMessageW(c, pack) ==
  IF hWnd # 0 /\ wnd[hWnd] \in {"pending", "alive"}
  THEN [NoCall EXCEPT !.target = hWnd, !.liveAtCall = TRUE, !.pack = pack,
                      !.msg = "queued"]
  ELSE [NoCall EXCEPT !.target = hWnd, !.pack = pack, !.msg = "failed",
                      !.returned = TRUE]

\* base_window::run_thread_ui / base_dialog::run_thread_ui, called by a worker:
\* new thread_pack, then SendMessageW(_hWnd, WM_UI_THREAD, 0xc0def00d, pPack)
run_thread_ui(c) ==
  /\ calls[c].msg = "none"
  /\ calls' = [calls EXCEPT ![c] = SendMessageW(c, "allocated")]
  /\ UNCHANGED << auxVars, storeVars, instVars, uiCur >>

\* the test the WM_UI_THREAD lambda makes before it touches the package
unpacks(wp, lp) == wp = UiThreadMagic /\ lp.ptr # 0

\* The UI thread takes the message of call c from its queue: the trampoline
\* runs, and the WM_UI_THREAD lambda, when it is the one exec finds, starts the
\* packaged callback.
UiDispatch(c) ==
  /\ kind \in {"window", "dialog"}
  /\ calls[c].msg = "queued" /\ ~Pending
  /\ wnd[calls[c].target] = "alive"
  /\ LET h == calls[c].target
         m == Message(WM_UI_THREAD, UiThreadMagic, LParam(0, 0, 0, c))
         r == IF kind = "window"
              THEN window_proc(hWnd, T, slot, h, m.msg, m.wp, m.lp, FALSE)
              ELSE dialog_proc(hWnd, T, slot, h, m.msg, m.wp, m.lp, FALSE)
         starts == r.e.ran = << "ui_thread" >> /\ unpacks(m.wp, m.lp)
     IN /\ hWnd' = r.hWnd
        /\ T' = r.e.T
        /\ slot' = r.slot
        /\ phase' = PhaseAfter(r.hWnd)
        /\ last' = Outcome(h, m, r, r.e) @@ Faults(r.pre, r.e.ran, FALSE, "none")
        /\ calls' = [calls EXCEPT ![c] =
                       IF starts
                       THEN [@ EXCEPT !.msg = "processing", !.cb = "running",
                                      !.ranOn = "ui",
                                      !.regAtDispatch = latest[<< "msgs", WM_UI_THREAD >>]]
                       ELSE [@ EXCEPT !.msg = "done", !.returned = TRUE,
                                      !.regAtDispatch = latest[<< "msgs", WM_UI_THREAD >>]]]
        /\ uiCur' = IF starts THEN c ELSE 0
  /\ UNCHANGED << auxVars, storeVars, kind, wnd, sub, latest >>

\* The packaged callback ends (throws: by raising, which catch_all_excps
\* swallows); the lambda deletes the package and returns 0, and SendMessageW
\* returns to the worker.
UiCallbackDone(c, raised) ==
  /\ uiCur = c
  /\ calls' = [calls EXCEPT ![c] =
                 [@ EXCEPT !.cb = IF raised # "none" THEN "raised" ELSE "finished",
                           !.fault = catch_all_excps(raised, "YES"),
                           !.runs = @ + 1,
                           !.pack = IF @ = "allocated" THEN "freed" ELSE "freed_twice",
                           !.msg = "done", !.returned = TRUE]]
  /\ uiCur' = 0
  /\ UNCHANGED << auxVars, storeVars, instVars >>

\* wl::run_thread_detached(func): the package is allocated, _beginthreadex
\* starts the thread (started) or fails, and the thread function runs func in
\* the protected region (raised: what func raises), deletes the package and
\* ends the thread.
run_thread_detached(started, raised) ==
  /\ det' = IF started
            THEN [op |-> "run_thread_detached", started |-> TRUE, raised |-> raised,
                  fault |-> catch_all_excps(raised, "NO"),
                  pack |-> "freed", ended |-> TRUE]
            ELSE [op |-> "run_thread_detached", started |-> FALSE, raised |-> "none",
                  fault |-> NoFault, pack |-> "allocated", ended |-> FALSE]
  /\ UNCHANGED << storeVars, instVars, threadVars >>
  /\ UNCHANGED << classVars, fileVars, accelVars, comVars, moreVars >>

\* The window went away with the message of call c still waiting: SendMessageW
\* returns failure to the worker and the message is never delivered.
SendFails(c) ==
  /\ calls[c].msg = "queued"
  /\ wnd[calls[c].target] = "gone"
  /\ calls' = [calls EXCEPT ![c] = [@ EXCEPT !.msg = "failed", !.returned = TRUE]]
  /\ UNCHANGED << auxVars, storeVars, instVars, uiCur >>

ThreadMessages == { Message(WM_NCDESTROY, Dword(0, 0), NoLParam),
                    Message(WM_UI_THREAD, Dword(0, 0), NoLParam) }

ThreadNext ==
  \/ \E cb \in {"g"} : on_message(WM_UI_THREAD, cb)
  \/ create_window(TRUE)
  \/ create_dialog_param(1, TRUE)
  \/ \E h \in Handles,
        m \in ThreadMessages \cup {Message(WM_NCCREATE, Dword(0, 0), LParam(0, 0, Self, 0))} :
          DeliverWindow(h, m, FALSE)
  \/ \E h \in Handles,
        m \in ThreadMessages \cup {Message(WM_INITDIALOG, Dword(0, 0), LParam(0, 0, 0, Self))} :
          DeliverDialog(h, m, FALSE)
  \/ \E c \in Calls : run_thread_ui(c)
  \/ \E c \in Calls : UiDispatch(c)
  \/ \E c \in Calls, raised \in {"none", "runtime_error"} : UiCallbackDone(c, raised)
  \/ \E c \in Calls : SendFails(c)

\* Lambdas that raise, wherever the library runs one: in exec, in the subclass
\* procedure, as the callback of run_thread_ui, in a detached thread.
FaultMessages == { Message(WM_SETFONT, Dword(0, 0), NoLParam) }

FaultNext ==
  \/ \E cb \in {"g"} : on_message(WM_SETFONT, cb)
  \/ \E cb \in {"g"} : on_subclass_message(WM_SETFONT, cb)
  \/ create_window(TRUE)
  \/ create_dialog_param(1, TRUE)
  \/ control_create_window(Self, TRUE)
  \/ \E h \in Handles, throws \in BOOLEAN,
        m \in FaultMessages \cup {Message(WM_NCCREATE, Dword(0, 0), LParam(0, 0, Self, 0))} :
          DeliverWindow(h, m, throws)
  \/ \E h \in Handles, throws \in BOOLEAN,
        m \in FaultMessages \cup {Message(WM_INITDIALOG, Dword(0, 0), LParam(0, 0, 0, Self))} :
          DeliverDialog(h, m, throws)
  \/ \E h \in Handles, throws \in BOOLEAN, m \in FaultMessages : DeliverControl(h, m, throws)
  \/ run_thread_ui(1)
  \/ UiDispatch(1)
  \/ \E raised \in {"none", "runtime_error"} : UiCallbackDone(1, raised)
  \/ \E started \in BOOLEAN, raised \in Raised \cup {"none"} :
        run_thread_detached(started, raised)

\* WM_COMMAND and WM_NOTIFY, registered through on_message as well as through
\* on_command and on_notify
GenericMessages == { Message(WM_COMMAND, Dword(1, 2), NoLParam),
                     Message(WM_NOTIFY, Dword(0, 0), LParam(1, -2, 0, 0)) }

GenericNext ==
  \/ \E msg \in {WM_COMMAND, WM_NOTIFY}, cb \in Cbs : on_message(msg, cb)
  \/ \E cmd \in CmdKeys, cb \in Cbs : on_command(cmd, cb)
  \/ \E k \in NfyKeys, cb \in Cbs : on_notify(k[1], k[2], cb)
  \/ create_window(TRUE)
  \/ create_dialog_param(1, TRUE)
  \/ \E h \in Handles,
        m \in GenericMessages \cup {Message(WM_NCCREATE, Dword(0, 0), LParam(0, 0, Self, 0))} :
          DeliverWindow(h, m, FALSE)
  \/ \E h \in Handles,
        m \in GenericMessages \cup {Message(WM_INITDIALOG, Dword(0, 0), LParam(0, 0, 0, Self))} :
          DeliverDialog(h, m, FALSE)

\* ------------------------------------------------------- register_class
MaxClassCalls == 3
ERROR_CLASS_ALREADY_EXISTS == 1410

\* the ATOM the OS gives to the class of that name
Atom(name) == IF name = "A" THEN 49153 ELSE 49154

register_class_strict(cls, name, style, osErr) ==
  LET lerr == IF cls[name] # 0 THEN ERROR_CLASS_ALREADY_EXISTS ELSE osErr
  IN IF lerr # 0
     THEN [classes |-> cls, err |-> "system_error", code |-> lerr, atom |-> 0,
           wcx |-> [name |-> name, style |-> style]]
     ELSE [classes |-> [cls EXCEPT ![name] = style], err |-> "none", code |-> 0,
           atom |-> Atom(name), wcx |-> [name |-> name, style |-> style]]

\* base_window::register_class(wcx) with wcx naming the class `name` with the
\* metadata `style`, when the OS holds the classes cls.  RegisterClassExW fails
\* with ERROR_CLASS_ALREADY_EXISTS for a class it holds and with osErr (0: it
\* succeeds) otherwise.
register_class(cls, name, style, osErr) ==
  LET lerr == IF cls[name] # 0 THEN ERROR_CLASS_ALREADY_EXISTS ELSE osErr
  IN IF lerr = ERROR_CLASS_ALREADY_EXISTS
     THEN \* atom = GetClassInfoExW(hInstance, lpszClassName, &wcx)
          [classes |-> cls, err |-> "none", code |-> 0, atom |-> Atom(name),
           wcx |-> [name |-> name, style |-> cls[name]]]
     ELSE IF lerr # 0
     THEN [classes |-> cls, err |-> "system_error", code |-> lerr, atom |-> 0,
           wcx |-> [name |-> name, style |-> style]]
     ELSE [classes |-> [cls EXCEPT ![name] = style], err |-> "none", code |-> 0,
           atom |-> Atom(name), wcx |-> [name |-> name, style |-> style]]

RegisterClass(name, style, osErr) ==
  /\ rcCalls < MaxClassCalls
  /\ LET r == register_class(classes, name, style, osErr)
     IN /\ classes' = r.classes
        /\ rcLast' = [op |-> "register_class", name |-> name, style |-> style,
                      osErr |-> osErr, before |-> classes[name],
                      err |-> r.err, code |-> r.code, atom |-> r.atom, wcx |-> r.wcx]
  /\ rcCalls' = rcCalls + 1
  /\ UNCHANGED << storeVars, instVars, threadVars, det, fileVars, accelVars, comVars, moreVars >>

ClassNext ==
  \E name \in ClassNames, style \in Styles, osErr \in {0, 8, 87} :
    RegisterClass(name, style, osErr)

\* ------------------------------------------------------- wl::file
MaxFileSize == 3

\* file::size(): GetFileSizeEx fails on a handle that is not open
file_size(hf, size) ==
  IF hf = 0 THEN [err |-> "system_error", size |-> 0] ELSE [err |-> "none", size |-> size]

\* file::set_new_size(numBytes) on the handle hf of a file of that size with
\* the file pointer at ptr; eofOk is whether SetEndOfFile succeeds.  The BOOL
\* that SetFilePointerEx returns is never INVALID_SET_FILE_POINTER, so the two
\* pointer moves raise nothing.
file_set_new_size(hf, size, ptr, numBytes, eofOk) ==
  LET sz == file_size(hf, size)
  IN IF sz.err # "none" THEN [size |-> size, ptr |-> ptr, err |-> sz.err]
     ELSE IF sz.size # numBytes       \* "otherwise nothing to do": return *this
     THEN [size |-> size, ptr |-> ptr, err |-> "none"]
     ELSE IF ~eofOk THEN [size |-> size, ptr |-> numBytes, err |-> "system_error"]
     ELSE [size |-> numBytes, ptr |-> 0, err |-> "none"]

\* file::open_or_create(path): close(), then CreateFileW(OPEN_ALWAYS)
open_or_create(ok) ==
  /\ hFile' = IF ok THEN 1 ELSE 0
  /\ fptr' = 0
  /\ fLast' = [op |-> "open_or_create", err |-> IF ok THEN "none" ELSE "runtime_error"]
  /\ UNCHANGED fsize
  /\ UNCHANGED << storeVars, instVars, threadVars, det, classVars, accelVars, comVars, moreVars >>

\* file::write(pData, sz): the file grows when the pointer passes its end
write(sz) ==
  /\ hFile # 0 => fptr + sz <= MaxFileSize
  /\ IF hFile = 0
     THEN /\ fLast' = [op |-> "write", err |-> "system_error"]
          /\ UNCHANGED << fsize, fptr >>
     ELSE /\ fsize' = IF fptr + sz > fsize THEN fptr + sz ELSE fsize
          /\ fptr' = fptr + sz
          /\ fLast' = [op |-> "write", err |-> "none"]
  /\ UNCHANGED hFile
  /\ UNCHANGED << storeVars, instVars, threadVars, det, classVars, accelVars, comVars, moreVars >>

\* file::set_new_size(numBytes)
set_new_size(numBytes, eofOk) ==
  /\ LET r == file_set_new_size(hFile, fsize, fptr, numBytes, eofOk)
     IN /\ fsize' = r.size
        /\ fptr' = r.ptr
        /\ fLast' = [op |-> "set_new_size", numBytes |-> numBytes, before |-> fsize,
                     err |-> r.err]
  /\ UNCHANGED hFile
  /\ UNCHANGED << storeVars, instVars, threadVars, det, classVars, accelVars, comVars, moreVars >>

\* file::close()
close ==
  /\ hFile' = 0
  /\ fptr' = 0
  /\ fLast' = [op |-> "close", err |-> "none"]
  /\ UNCHANGED fsize
  /\ UNCHANGED << storeVars, instVars, threadVars, det, classVars, accelVars, comVars, moreVars >>

FileNext ==
  \/ \E ok \in BOOLEAN : open_or_create(ok)
  \/ \E sz \in 1..2 : write(sz)
  \/ \E numBytes \in 0..MaxFileSize, eofOk \in BOOLEAN : set_new_size(numBytes, eofOk)
  \/ close

\* ------------------------------------------------------- wl::accel_table
MaxAccels == 2

\* CharUpperBuffW(&ch, 1)
CharUpper(ch) == IF ch = "a" THEN "A" ELSE ch

\* the guard add_char and add_key share, and the emplace_back after it
accel_add(acc, ha, entry) ==
  IF ha # 0 THEN [accels |-> acc, err |-> "logic_error"]
  ELSE [accels |-> Append(acc, entry), err |-> "none"]

\* accel_table::_build(): ok is whether CreateAcceleratorTableW makes a table
accel_build(acc, ha, ok) ==
  IF ha = 0 /\ Len(acc) > 0
  THEN IF ok THEN [accels |-> << >>, hAccel |-> 1, err |-> "none", osCalled |-> TRUE]
       ELSE [accels |-> acc, hAccel |-> 0, err |-> "system_error", osCalled |-> TRUE]
  ELSE [accels |-> acc, hAccel |-> ha, err |-> "none", osCalled |-> FALSE]

AccelAdded(op, entry) ==
  /\ LET r == accel_add(accels, hAccel, entry)
     IN /\ accels' = r.accels
        /\ acLast' = [op |-> op, err |-> r.err, sealed |-> acCalled, ret |-> 0]
  /\ UNCHANGED << hAccel, acCalled, acBuilt >>
  /\ UNCHANGED << storeVars, instVars, threadVars, det, classVars, fileVars, comVars, moreVars >>

\* accel_table::add_char(ch, modifiers, cmdId)
add_char(ch, cmdId) ==
  /\ hAccel = 0 => Len(accels) < MaxAccels
  /\ AccelAdded("add_char", [key |-> CharUpper(ch), cmd |-> cmdId])

\* accel_table::add_key(vKey, modifiers, cmdId)
add_key(vKey, cmdId) ==
  /\ hAccel = 0 => Len(accels) < MaxAccels
  /\ AccelAdded("add_key", [key |-> vKey, cmd |-> cmdId])

\* accel_table::haccel(): builds the table if not yet, returns _hAccel
haccel(ok) ==
  /\ LET r == accel_build(accels, hAccel, ok)
     IN /\ accels' = r.accels
        /\ hAccel' = r.hAccel
        /\ acCalled' = (acCalled \/ r.err = "none")
        /\ acBuilt' = IF r.osCalled /\ r.err = "none" THEN acBuilt + 1 ELSE acBuilt
        /\ acLast' = [op |-> "haccel", err |-> r.err, sealed |-> acCalled, ret |-> r.hAccel]
  /\ UNCHANGED << storeVars, instVars, threadVars, det, classVars, fileVars, comVars, moreVars >>

\* accel_table::destroy()
destroy ==
  /\ IF hAccel # 0
     THEN /\ hAccel' = 0
          /\ accels' = << >>
          /\ acCalled' = FALSE
          /\ acBuilt' = 0
     ELSE UNCHANGED << hAccel, accels, acCalled, acBuilt >>
  /\ acLast' = [op |-> "destroy", err |-> "none", sealed |-> acCalled, ret |-> 0]
  /\ UNCHANGED << storeVars, instVars, threadVars, det, classVars, fileVars, comVars, moreVars >>

AccelNext ==
  \/ \E ch \in {"a", "B"}, cmdId \in {1, 2} : add_char(ch, cmdId)
  \/ \E vKey \in {"F1"}, cmdId \in {1, 2} : add_key(vKey, cmdId)
  \/ \E ok \in BOOLEAN : haccel(ok)
  \/ destroy

\* ------------------------------------------------------- wl::com::lib
\* what CoInitialize can return: S_OK, S_FALSE (the thread was initialized
\* already; the call still has to be matched), or a failure
HResults == {"S_OK", "S_FALSE", "E_FAIL"}

\* lib::initialize() on an object whose _running is `running`
lib_initialize(running, hr) ==
  IF ~running
  THEN IF hr \notin {"S_OK", "S_FALSE"}
       THEN [running |-> FALSE, os |-> << >>, tried |-> TRUE, err |-> "system_error"]
       ELSE [running |-> TRUE, os |-> << "CoInitialize" >>, tried |-> TRUE, err |-> "none"]
  ELSE [running |-> TRUE, os |-> << >>, tried |-> FALSE, err |-> "none"]

\* lib::un_initialize()
lib_un_initialize(running) ==
  IF running THEN [running |-> FALSE, os |-> << "CoUninitialize" >>]
  ELSE [running |-> FALSE, os |-> << >>]

lib_move_assign_keeps(dst, src) ==
  [dst |-> src, src |-> FALSE, os |-> << >>]

\* lib::operator=(lib&& other): un_initialize(), then swap the two flags
lib_move_assign(dst, src) ==
  LET u == lib_un_initialize(dst)
  IN [dst |-> src, src |-> u.running, os |-> u.os]

\* the OS's count after the calls os that took effect
Outstanding(n, os) ==
  IF os = << >> THEN n ELSE IF os[1] = "CoInitialize" THEN n + 1 ELSE n - 1

ComStep(op, o, newObj, os, err) ==
  /\ obj' = newObj
  /\ outstanding' = Outstanding(outstanding, os)
  /\ comLast' = [op |-> op, o |-> o, os |-> os, err |-> err,
                 runningBefore |-> obj[o].running, prevOs |-> obj[o].oslog,
                 moved |-> obj[o].moved]
  /\ UNCHANGED << storeVars, instVars, threadVars, det, classVars, fileVars, accelVars, moreVars >>

Logged(log, os) == IF os = << >> THEN log ELSE os[1]

\* lib::lib(init when)
lib_ctor(o, when, hr) ==
  /\ obj[o].life = "unborn"
  /\ LET r == IF when = "NOW" THEN lib_initialize(FALSE, hr)
              ELSE [running |-> FALSE, os |-> << >>, tried |-> FALSE, err |-> "none"]
     IN ComStep("lib", o,
                [obj EXCEPT ![o] = [life |-> IF r.err = "none" THEN "alive" ELSE "failed",
                                    running |-> r.running, moved |-> FALSE,
                                    oslog |-> Logged("none", r.os)]],
                r.os, r.err)

\* lib::lib(lib&& other): _running starts false, then operator=
lib_move_ctor(o, other) ==
  /\ obj[o].life = "unborn" /\ obj[other].life = "alive"
  /\ LET r == lib_move_assign(FALSE, obj[other].running)
     IN ComStep("lib_move", o,
                [obj EXCEPT ![o] = [life |-> "alive", running |-> r.dst, moved |-> TRUE,
                                    oslog |-> obj[other].oslog],
                            ![other] = [@ EXCEPT !.running = r.src, !.moved = TRUE]],
                r.os, "none")

\* lib::operator=(lib&& other), other possibly the object itself
move_assign(o, other) ==
  /\ obj[o].life = "alive" /\ obj[other].life = "alive"
  /\ LET r == lib_move_assign(obj[o].running,
                              IF other = o THEN lib_un_initialize(obj[o].running).running
                              ELSE obj[other].running)
     IN ComStep("move_assign", o,
                IF other = o
                THEN [obj EXCEPT ![o] = [@ EXCEPT !.running = r.dst, !.moved = TRUE,
                                                  !.oslog = Logged(@, r.os)]]
                ELSE [obj EXCEPT ![o] = [@ EXCEPT !.running = r.dst, !.moved = TRUE,
                                                  !.oslog = Logged(@, r.os)],
                                 ![other] = [@ EXCEPT !.running = r.src, !.moved = TRUE]],
                r.os, "none")

\* lib::initialize()
initialize(o, hr) ==
  /\ obj[o].life = "alive"
  /\ LET r == lib_initialize(obj[o].running, hr)
     IN ComStep("initialize", o,
                [obj EXCEPT ![o] = [@ EXCEPT !.running = r.running,
                                             !.oslog = Logged(@, r.os)]],
                r.os, r.err)

\* lib::un_initialize()
un_initialize(o) ==
  /\ obj[o].life = "alive"
  /\ LET r == lib_un_initialize(obj[o].running)
     IN ComStep("un_initialize", o,
                [obj EXCEPT ![o] = [@ EXCEPT !.running = r.running,
                                             !.oslog = Logged(@, r.os)]],
                r.os, "none")

\* lib::~lib()
lib_dtor(o) ==
  /\ obj[o].life = "alive"
  /\ LET r == lib_un_initialize(obj[o].running)
     IN ComStep("~lib", o,
                [obj EXCEPT ![o] = [@ EXCEPT !.life = "destroyed", !.running = r.running,
                                             !.oslog = Logged(@, r.os)]],
                r.os, "none")

ComNext ==
  \/ \E o \in Objects, when \in {"NOW", "LATER"}, hr \in HResults : lib_ctor(o, when, hr)
  \/ \E o, other \in Objects : lib_move_ctor(o, other)
  \/ \E o, other \in Objects : move_assign(o, other)
  \/ \E o \in Objects, hr \in HResults : initialize(o, hr)
  \/ \E o \in Objects : un_initialize(o)
  \/ \E o \in Objects : lib_dtor(o)

\* ------------------------------------------------------- wl::file_mapped
\* size_t has SizeBits bits; -1 as a size_t is NPOS
SizeBits == 3
SizeMod == 2 ^ SizeBits
NPOS == SizeMod - 1
\* std::vector<BYTE>::max_size(), PTRDIFF_MAX: resize() beyond it raises
\* std::length_error; a view of a larger file does not fit the address space
MaxVec == 2 ^ (SizeBits - 1) - 1

\* file_mapped::read_to_buffer(buf, offset, numBytes) on a mapped file of sz
\* bytes and a buffer of bufLen bytes.  checked: the build checks
\* operator[], which &buf[0] trips on a vector resized to nothing.
read_to_buffer(sz, bufLen, offset, numBytes, checked) ==
  IF offset >= sz
  THEN [err |-> "invalid_argument", buf |-> bufLen, copied |-> 0, beyond |-> FALSE]
  ELSE LET n == IF numBytes = NPOS \/ (offset + numBytes) % SizeMod > sz
                THEN sz - offset ELSE numBytes
       IN IF n > MaxVec
          THEN [err |-> "length_error", buf |-> bufLen, copied |-> 0, beyond |-> FALSE]
          ELSE IF n = 0 /\ checked
          THEN [err |-> "abort", buf |-> 0, copied |-> 0, beyond |-> FALSE]
          ELSE [err |-> "none", buf |-> n, copied |-> n, beyond |-> offset + n > sz]

\* file_mapped::open_read(filePath) on a file of that size: close(), then the
\* file is opened and mapped and its size is cached in _sz
open_read(size) ==
  /\ mSz' = size
  /\ mLast' = [op |-> "open_read", err |-> "none"]
  /\ UNCHANGED mBuf
  /\ UNCHANGED << storeVars, instVars, threadVars, det, classVars, fileVars, accelVars,
                  comVars, modalVars >>

\* file_mapped::read_to_buffer(buf, offset, numBytes)
ReadToBuffer(offset, numBytes, checked) ==
  /\ LET r == read_to_buffer(mSz, mBuf, offset, numBytes, checked)
     IN /\ mBuf' = r.buf
        /\ mLast' = [op |-> "read_to_buffer", offset |-> offset, numBytes |-> numBytes,
                     bufBefore |-> mBuf, err |-> r.err, copied |-> r.copied,
                     beyond |-> r.beyond]
  /\ UNCHANGED mSz
  /\ UNCHANGED << storeVars, instVars, threadVars, det, classVars, fileVars, accelVars,
                  comVars, modalVars >>

\* file_mapped::close()
map_close ==
  /\ mSz' = 0
  /\ mLast' = [op |-> "close", err |-> "none"]
  /\ UNCHANGED mBuf
  /\ UNCHANGED << storeVars, instVars, threadVars, det, classVars, fileVars, accelVars,
                  comVars, modalVars >>

MapNext ==
  \/ \E size \in 0..MaxVec : open_read(size)
  \/ \E offset \in 0..NPOS, numBytes \in 0..NPOS, checked \in BOOLEAN :
        ReadToBuffer(offset, numBytes, checked)
  \/ map_close

\* ------------------------------------------------------- wl::window_modal
MaxQueue == 2

\* another window of the UI thread (the parent, a child control)
OtherWindow == 2

Posted(hwnd, m) == [hwnd |-> hwnd, m |-> m]

\* what gets posted to the UI thread while the modal is up: a click on the
\* modal's close box, some other message for the modal, a message for another
\* window, PostQuitMessage(3)
PostedMessages ==
  { Posted(ModalHandle, Message(WM_CLOSE, Dword(0, 0), NoLParam)),
    Posted(ModalHandle, Message(WM_SETFONT, Dword(0, 0), NoLParam)),
    Posted(OtherWindow, Message(WM_SETFONT, Dword(0, 0), NoLParam)),
    Posted(0, Message(WM_QUIT, Dword(0, 3), NoLParam)) }

\* the body of a user lambda either calls DestroyWindow(hwnd()) or does not
Does == {"nothing", "destroy"}

\* what a dispatch to the modal comes to: sent is what _window_proc did with
\* the message, gone what it did with the WM_NCDESTROY that DestroyWindow
\* sends.  The default WM_CLOSE lambda enables the owner and calls
\* DestroyWindow; a user lambda calls DestroyWindow when `does` says so.
modal_outcome(sent, gone, m, does) ==
  LET lambda == sent.e.ran
      enables == lambda = << "wm_close" >>
      destroys == /\ m.msg # WM_NCDESTROY
                  /\ \/ lambda = << "wm_close" >>
                     \/ lambda # << >> /\ lambda[1] \in Cbs /\ does = "destroy"
  IN [hWnd |-> IF destroys THEN gone.hWnd ELSE sent.hWnd,
      T |-> IF destroys THEN gone.e.T ELSE sent.e.T,
      slot |-> IF destroys THEN gone.slot ELSE sent.slot,
      ran |-> lambda, enables |-> enables, destroys |-> destroys]

\* The OS calls _window_proc of the modal's window with message m, and the
\* lambda exec finds runs; DestroyWindow sends WM_NCDESTROY to the same
\* procedure before it returns.
modal_send(hw, t, sl, m, does) ==
  CHOOSE out \in
    UNION { { modal_outcome(sent, gone, m, does) :
                gone \in { window_proc(sent.hWnd, sent.e.T, sent.slot, ModalHandle,
                                       WM_NCDESTROY, Dword(0, 0), NoLParam, FALSE) } } :
            sent \in { window_proc(hw, t, sl, ModalHandle, m.msg, m.wp, m.lp, FALSE) } } :
      TRUE

ModalStays == UNCHANGED << storeVars, instVars, threadVars, det, classVars, fileVars,
                           accelVars, comVars, mapVars >>

\* window_modal::on_message(msg, func), made before show() is called
modal_on_message(msg, cb) ==
  /\ pc \in {"idle", "returned"}
  /\ IF mdHwnd # 0
     THEN /\ mdLast' = [op |-> "on_message", err |-> "logic_error"]
          /\ UNCHANGED mdT
     ELSE /\ Lambdas(mdT.msgs) < MaxRegs
          /\ mdT' = [mdT EXCEPT !.msgs = store_add(@, msg, UserFunc(cb))]
          /\ mdLast' = [op |-> "on_message", err |-> "none"]
  /\ UNCHANGED << mdHwnd, mdSlot, parentEnabled, pc, queue >>
  /\ ModalStays

\* window_modal::show(parent) up to the return of create_window: osErr is
\* what RegisterClassExW fails with (0: it does not), ok whether
\* CreateWindowExW makes the window; WM_NCCREATE reaches _window_proc from
\* inside CreateWindowExW
show(parent, osErr, ok) ==
  /\ pc = "idle"
  /\ IF parent = 0
     THEN /\ mdLast' = [op |-> "show", err |-> "invalid_argument", disabled |-> FALSE]
          /\ pc' = "raised"
          /\ UNCHANGED << mdT, mdHwnd, mdSlot, parentEnabled >>
     ELSE IF register_class(classes, "A", 1, osErr).err # "none"
     THEN /\ mdLast' = [op |-> "show", err |-> "system_error", disabled |-> FALSE]
          /\ pc' = "raised"
          /\ UNCHANGED << mdT, mdHwnd, mdSlot, parentEnabled >>
     ELSE IF mdHwnd # 0
     THEN \* EnableWindow(parent, FALSE), then create_window: "twice"
          /\ mdLast' = [op |-> "show", err |-> "logic_error", disabled |-> TRUE]
          /\ pc' = "raised"
          /\ parentEnabled' = FALSE
          /\ UNCHANGED << mdT, mdHwnd, mdSlot >>
     ELSE IF ~ok
     THEN /\ mdLast' = [op |-> "show", err |-> "system_error", disabled |-> TRUE]
          /\ pc' = "raised"
          /\ parentEnabled' = FALSE
          /\ UNCHANGED << mdT, mdHwnd, mdSlot >>
     ELSE LET r == window_proc(mdHwnd, mdT, mdSlot, ModalHandle, WM_NCCREATE,
                               Dword(0, 0), LParam(0, 0, Self, 0), FALSE)
          IN /\ mdHwnd' = r.hWnd
             /\ mdT' = r.e.T
             /\ mdSlot' = r.slot
             /\ parentEnabled' = FALSE
             /\ pc' = "created"
             /\ mdLast' = [op |-> "show", err |-> "none", disabled |-> TRUE]
  /\ UNCHANGED queue
  /\ ModalStays

\* show() from GetWindowRect to the call of _run_modal_loop: SetWindowPos
\* moves the modal, and the OS sends WM_MOVE to its procedure meanwhile
SetWindowPos(does) ==
  /\ pc = "created"
  /\ \E r \in { modal_send(mdHwnd, mdT, mdSlot,
                            Message(WM_MOVE, Dword(0, 0), NoLParam), does) } :
        /\ mdHwnd' = r.hWnd
        /\ mdT' = r.T
        /\ mdSlot' = r.slot
        /\ parentEnabled' = (parentEnabled \/ r.enables)
        /\ mdLast' = [op |-> "SetWindowPos", ran |-> r.ran, destroyed |-> r.destroys]
  /\ pc' = "loop"
  /\ UNCHANGED queue
  /\ ModalStays

\* PostMessage / PostQuitMessage by whoever: the message joins the queue
Post(p) ==
  /\ pc \in {"created", "loop"}
  /\ Len(queue) < MaxQueue
  /\ queue' = Append(queue, p)
  /\ UNCHANGED << mdT, mdHwnd, mdSlot, parentEnabled, pc, mdLast >>
  /\ ModalStays

\* One turn of the for (;;) of window_modal::_run_modal_loop.  gmFails:
\* GetMessageW returns -1; dlg: IsDialogMessageW takes the message.
\* GetMessageW waits while the queue is empty.
run_modal_loop(gmFails, dlg, does) ==
  /\ pc = "loop"
  /\ IF gmFails
     THEN /\ pc' = "raised"
          /\ mdLast' = [op |-> "loop", got |-> FALSE, err |-> "system_error"]
          /\ UNCHANGED << mdT, mdHwnd, mdSlot, parentEnabled, queue >>
     ELSE /\ queue # << >>
          /\ LET p == Head(queue)
                 quit == p.m.msg = WM_QUIT
                 \* DispatchMessageW reaches the modal's procedure
                 toModal == ~quit /\ ~dlg /\ p.hwnd = ModalHandle
             IN \E r \in { IF toModal THEN modal_send(mdHwnd, mdT, mdSlot, p.m, does)
                           ELSE [hWnd |-> mdHwnd, T |-> mdT, slot |-> mdSlot,
                                 ran |-> << >>, enables |-> FALSE, destroys |-> FALSE] } :
                /\ mdHwnd' = r.hWnd
                /\ mdT' = r.T
                /\ mdSlot' = r.slot
                /\ parentEnabled' = (parentEnabled \/ r.enables)
                \* PostQuitMessage(static_cast<int>(msg.wParam))
                /\ queue' = IF quit THEN Append(Tail(queue), Posted(0, p.m)) ELSE Tail(queue)
                /\ pc' = IF quit \/ r.hWnd = 0 THEN "returned" ELSE "loop"
                /\ mdLast' = [op |-> "loop", got |-> TRUE, err |-> "none", retrieved |-> p,
                              hwndAtGet |-> mdHwnd, dispatched |-> ~quit,
                              ran |-> r.ran,
                              reposted |-> IF quit THEN << p.m.wp >> ELSE << >>]
  /\ ModalStays

ModalNext ==
  \/ \E msg \in {WM_CLOSE, WM_MOVE, WM_SETFONT}, cb \in {"g"} : modal_on_message(msg, cb)
  \/ \E parent \in {0, Self}, osErr \in {0, 8}, ok \in BOOLEAN : show(parent, osErr, ok)
  \/ \E does \in Does : SetWindowPos(does)
  \/ \E p \in PostedMessages : Post(p)
  \/ \E gmFails \in BOOLEAN, dlg \in BOOLEAN, does \in Does : run_modal_loop(gmFails, dlg, does)

vars == << st, stLast, stLatest, kind, hWnd, T, wnd, slot, sub, phase, latest, last,
          calls, uiCur, det, classes, rcLast, rcCalls, hFile, fsize, fptr, fLast,
          accels, hAccel, acCalled, acBuilt, acLast, obj, outstanding, comLast,
          mSz, mBuf, mLast, mdT, mdHwnd, mdSlot, parentEnabled, pc, queue, mdLast >>

Init == StoreInit /\ InstInit /\ ThreadInit /\ AuxInit

StoreSpec == Init /\ [][StoreNext]_vars

Spec == Init /\ [][Next]_vars

ThreadSpec == Init /\ [][ThreadNext]_vars

FaultSpec == Init /\ [][FaultNext]_vars

GenericSpec == Init /\ [][GenericNext]_vars

ClassSpec == Init /\ [][ClassNext]_vars

FileSpec == Init /\ [][FileNext]_vars

AccelSpec == Init /\ [][AccelNext]_vars

ComSpec == Init /\ [][ComNext]_vars

MapSpec == Init /\ [][MapNext]_vars

ModalSpec == Init /\ [][ModalNext]_vars

\* C1: find(k) returns the callback of the most recently added entry with key
\* k, and nothing when no entry with key k was ever added (also for the
\* sentinel's initial value 0 and for the key of an earlier find).
C1_FindLatest ==
  stLast.op = "find" =>
    IF stLatest[stLast.id] = "none"
    THEN stLast.ptr = 0 /\ stLast.ran = << >>
    ELSE stLast.ptr # 0 /\ stLast.ran = << stLatest[stLast.id] >>

\* a find that had two entries of different callbacks under its key to choose from
C1_Witness ==
  /\ stLast.op = "find"
  /\ stLast.ptr # 0
  /\ \E i \in 2..Len(st) : /\ i - 1 < stLast.ptr
                           /\ st[i].id = stLast.id
                           /\ st[i].func.kind = "user"
                           /\ << st[i].func.cb >> # stLast.ran
  /\ st[1].id = stLast.id

\* Looking up ids[i], ids[i+1], ... one after the other and invoking each result
\* once: the user callbacks that ran, in order.
RECURSIVE find_and_call_all(_, _, _)
find_and_call_all(h, ids, i) ==
  IF i > Len(ids) THEN << >>
  ELSE LET r == store_find(h, ids[i])
       IN (IF r.ptr = 0 THEN << "empty" >> ELSE call_func(r.handlers, r.ptr))
          \o find_and_call_all(r.handlers, ids, i + 1)

PairwiseDistinct(ids) == \A i, j \in DOMAIN ids : i # j => ids[i] # ids[j]

\* C2: after add({k1..kn}, cb) with pairwise distinct keys, invoking the results
\* of find(k1), ..., find(kn) once each runs cb exactly n times and runs no
\* other callback.
C2_SharedCallback ==
  (stLast.op = "add_list" /\ PairwiseDistinct(stLast.ids)) =>
    find_and_call_all(st, stLast.ids, 1) = [i \in DOMAIN stLast.ids |-> stLast.cb]

\* a three-key registration made on a table that already held other entries
C2_Witness ==
  /\ stLast.op = "add_list"
  /\ Len(stLast.ids) = 3
  /\ PairwiseDistinct(stLast.ids)
  /\ stLast.before > 1
  /\ \E i \in 2..stLast.before : st[i].func.kind = "user" /\ st[i].func.cb # stLast.cb

\* C3 as stated: one multi-key add appends as many entries as its list has
\* distinct keys.
C3_OneEntryPerDistinctKey ==
  stLast.op = "add_list" =>
    Len(st) - stLast.before = Cardinality({ stLast.ids[i] : i \in DOMAIN stLast.ids })

\* C3 (amended): one multi-key add appends one entry for the first key and one
\* for every later position whose key differs from the first key; a repetition
\* of the first key gets no second entry.
C3_OneEntryForFirstKey ==
  stLast.op = "add_list" =>
    /\ Len(st) - stLast.before =
         1 + Cardinality({ i \in DOMAIN stLast.ids : i > 1 /\ stLast.ids[i] # stLast.ids[1] })
    /\ Cardinality({ i \in (stLast.before + 1)..Len(st) : st[i].id = stLast.ids[1] }) = 1

\* a three-key add whose list repeats its first key
C3_Witness ==
  /\ stLast.op = "add_list"
  /\ Len(stLast.ids) = 3
  /\ \E i \in DOMAIN stLast.ids : i > 1 /\ stLast.ids[i] = stLast.ids[1]
  /\ Len(st) - stLast.before = 2

\* ------------------------------------------------- window, dialog, control
\* the lambda of the latest accepted registration that the message m is for
RegisteredFor(m) ==
  IF m.msg = WM_COMMAND THEN latest[<< "cmds", LOWORD(m.wp) >>]
  ELSE IF m.msg = WM_NOTIFY THEN latest[<< "nfys", << m.lp.idFrom, m.lp.code >> >>]
  ELSE latest[<< "msgs", m.msg >>]

DefaultProcessing == IF kind = "window" THEN ByDefWindowProc ELSE ByFalse

\* C4: a message delivered to the trampoline of a LIVE window or dialog runs
\* the handler registered for it exactly once and the trampoline returns what
\* the handler returned; a message with no registration gets the empty result
\* from exec and default processing (DefWindowProc, FALSE for a dialog).
C4_Dispatch ==
  (last.op = "deliver" /\ kind # "control" /\ last.hWndBefore = last.h) =>
    LET cb == RegisteredFor(last.m)
    IN IF cb = "none"
       THEN ~last.has_value /\ last.ran = << >> /\ last.ret = DefaultProcessing
       ELSE /\ last.has_value
            /\ last.ran = << cb >>
            /\ ~last.threw =>
                 last.ret = ByHandler(IF cb = "ui_thread" THEN 0 ELSE Ret(cb))

\* the command message reached the lambda registered under its low word, whose
\* value went back to the OS
C4_Witness ==
  /\ last.op = "deliver" /\ kind # "control" /\ last.hWndBefore = last.h
  /\ last.m.msg = WM_COMMAND
  /\ last.ran = << "g" >>
  /\ last.ret = ByHandler(7)

\* C5: a creation call on an instance whose handle is set fails with a logic
\* error, does not reach the OS creation function and leaves the handle alone.
C5_NoSecondCreate ==
  [][(last'.op \in CreateOps /\ hWnd # 0) =>
       /\ last'.err = "logic_error"
       /\ ~last'.osCalled
       /\ hWnd' = hWnd
       /\ wnd' = wnd]_vars

\* a window whose handle is set had a second create_window call rejected
C5_Witness ==
  /\ last.op = "create_window"
  /\ last.err = "logic_error"
  /\ hWnd # 0 /\ wnd[hWnd] = "alive"

\* C6: while the handle is set, every registration call fails with a logic
\* error and leaves all handler tables of the instance as they were.
C6_NoRegistrationWhileLive ==
  [][(last'.op \in RegOps /\ hWnd # 0) =>
       /\ last'.err = "logic_error"
       /\ T' = T]_vars

\* a multi-key registration was rejected on a live instance that has handlers
C6_Witness ==
  /\ last.op = "on_command_list"
  /\ last.err = "logic_error"
  /\ hWnd # 0
  /\ RegCalls(T) > 0

\* the registrations a table holds (all but the sentinel)
Regs(t) == << Tail(t.msgs), Tail(t.cmds), Tail(t.nfys) >>

\* C7: UNCREATED -> LIVE -> DESTROYED is not reversible: a window or dialog
\* instance that reached DESTROYED stays DESTROYED, and once it was created
\* its tables take no further registration.
C7_NonReversible ==
  [][kind # "control" =>
       /\ phase = "DESTROYED" => phase' = "DESTROYED"
       /\ phase # "UNCREATED" => Regs(T') = Regs(T)]_vars

\* C8: the owner slot of a handle is set only while its window is between the
\* creation message and WM_NCDESTROY; a message that reaches the trampoline
\* before the creation message or after WM_NCDESTROY finds no owner, runs no
\* handler and gets default processing.
C8_OwnerOnlyWhileAlive ==
  /\ \A h \in Handles : slot[h] # 0 => wnd[h] = "alive"
  /\ (/\ last.op = "deliver" /\ kind # "control"
      /\ \/ last.wndBefore = "gone"
         \/ last.wndBefore = "pending" /\ last.m.msg # CreationMsg) =>
       /\ ~last.owner
       /\ last.ran = << >> /\ last.pre = << >>
       /\ last.ret = DefaultProcessing

\* a message for which a lambda is registered reached the trampoline after
\* WM_NCDESTROY
C8_Witness ==
  /\ last.op = "deliver" /\ kind # "control"
  /\ last.wndBefore = "gone"
  /\ RegisteredFor(last.m) \in Cbs
  /\ last.ran = << >>

\* ------------------------------------------------------------ run_thread_ui
\* C9: for a window that is LIVE when run_thread_ui is called and still LIVE
\* when the UI thread dispatches the call's WM_UI_THREAD message, the callback
\* has run exactly once by the time run_thread_ui returns, it ran on the UI
\* thread, and it runs only while the trampoline is processing that message.
C9_RunsExactlyOnce ==
  \A c \in Calls :
    /\ calls[c].ranOn \in {"none", "ui"}
    /\ calls[c].cb = "running" => (uiCur = c /\ calls[c].msg = "processing")
    /\ (calls[c].liveAtCall /\ calls[c].returned /\ calls[c].msg = "done") =>
         (calls[c].runs = 1 /\ calls[c].cb \in {"finished", "raised"})

\* C10: every run_thread_ui call that has returned, whatever the lifecycle
\* state of the instance was when it was made, had its package released, and
\* no package is released twice.
C10_PackageReleasedOnce ==
  \A c \in Calls :
    /\ calls[c].pack # "freed_twice"
    /\ calls[c].returned => calls[c].pack = "freed"

\* ------------------------------------------------------- exec and faults
\* the table exec has to probe for the message m, and the key to probe it under
ProbedTable(m) ==
  IF m.msg = WM_COMMAND THEN "cmds" ELSE IF m.msg = WM_NOTIFY THEN "nfys" ELSE "msgs"
ProbedKey(m) ==
  IF m.msg = WM_COMMAND THEN LOWORD(m.wp)
  ELSE IF m.msg = WM_NOTIFY THEN << m.lp.idFrom, m.lp.code >> ELSE m.msg

\* the positions of table t that hold a registration under key k
EntriesUnder(t, k) == { i \in 2..Len(T[t]) : T[t][i].id = k }

\* C11: exec probes one table per message: the command table under the low word
\* of wp for WM_COMMAND, the notification table under (idFrom, code) for
\* WM_NOTIFY, the message table under the code for any other message; it finds
\* a handler exactly when that table holds the key, whatever the other two
\* tables hold, and runs that table's latest entry for it.
C11_OneTablePerMessage ==
  (last.op = "deliver" /\ kind # "control" /\ last.owner) =>
    LET t == ProbedTable(last.m)
        at == EntriesUnder(t, ProbedKey(last.m))
    IN /\ last.table = t
       /\ last.has_value <=> at # {}
       /\ at # {} =>
            last.ran = call_func(T[t], (CHOOSE i \in at : \A j \in at : j <= i) - 1)

\* WM_COMMAND found no handler although the message table holds one under the
\* code of WM_COMMAND itself
C11_Witness ==
  /\ last.op = "deliver" /\ kind # "control" /\ last.owner
  /\ last.m.msg = WM_COMMAND
  /\ EntriesUnder("msgs", WM_COMMAND) # {}
  /\ ~last.has_value
  /\ last.ret = DefaultProcessing

C13_QuitOnlyFromUiThread ==
  /\ (last.op = "deliver" /\ last.threw) => last.fault.quit = << -1 >>
  /\ \A c \in Calls : calls[c].cb = "raised" => calls[c].fault.quit = << -1 >>
  /\ (det.op = "run_thread_detached" /\ det.started /\ det.raised # "none") =>
       /\ Len(det.fault.boxes) = 1
       /\ det.fault.quit = << >>
       /\ det.pack = "freed" /\ det.ended

\* a detached thread's function raised, and so did a run_thread_ui callback
C13_Witness ==
  /\ det.op = "run_thread_detached" /\ det.started /\ det.raised = "logic_error"
  /\ det.fault.boxes = << "Logic exception" >>
  /\ calls[1].cb = "raised"

\* ------------------------------------------------------- register_class
\* C14: register_class for a class the OS already holds does not fail: it
\* returns the class's atom with the existing class's metadata fetched into
\* wcx and leaves the OS's classes as they were, however often it is repeated;
\* any other OS error raises a system error carrying that error code, and a
\* registration the OS accepts adds the class.
C14_RegistrationIdempotent ==
  rcLast.op = "register_class" =>
    IF rcLast.before # 0
    THEN /\ rcLast.err = "none" /\ rcLast.atom = Atom(rcLast.name)
         /\ rcLast.wcx.style = rcLast.before
         /\ classes[rcLast.name] = rcLast.before
    ELSE IF rcLast.osErr # 0
    THEN /\ rcLast.err = "system_error" /\ rcLast.code = rcLast.osErr
         /\ classes[rcLast.name] = 0
    ELSE /\ rcLast.err = "none" /\ rcLast.atom = Atom(rcLast.name)
         /\ classes[rcLast.name] = rcLast.style

\* the third registration of a class, asked with other metadata than it has
C14_Witness ==
  /\ rcLast.op = "register_class"
  /\ rcCalls = 3
  /\ rcLast.before # 0 /\ rcLast.before # rcLast.style
  /\ rcLast.err = "none"
  /\ \A n \in ClassNames \ {rcLast.name} : classes[n] = 0

C16_SubclassRemovedOnDestroy ==
  kind = "control" =>
    /\ (last.op = "deliver" /\ last.m.msg = WM_NCDESTROY) => ~sub[last.h]
    /\ \A h \in Handles : wnd[h] = "gone" => ~sub[h]

\* the lambda registered for WM_NCDESTROY raised, and the subclass is gone
C16_Witness ==
  /\ kind = "control" /\ last.op = "deliver" /\ last.m.msg = WM_NCDESTROY
  /\ last.threw /\ last.ran # << >>
  /\ ~sub[last.h] /\ wnd[last.h] = "gone"

\* C17: a creation call that is turned down before it reaches the OS on an
\* instance whose handle is not set (a dialog created with the resource id 0,
\* a control created or assigned without a parent) raises an invalid-argument
\* error, not a logic error.
C17_InvalidArgumentCategory ==
  (/\ last.op \in {"create_dialog_param", "dialog_box_param",
                    "control_create_window", "assign"}
   /\ last.err # "none" /\ ~last.osCalled /\ hWnd = 0) =>
    last.err = "invalid_argument"

\* ------------------------------------------------------- wl::file
\* C18: after set_new_size(n) returns without error the size of the file is n,
\* whatever its size was before.
C18_SizeIsNewSize ==
  (fLast.op = "set_new_size" /\ fLast.err = "none") => fsize = fLast.numBytes

\* ------------------------------------------------------- wl::accel_table
\* C19: once haccel() has returned on an accel_table, every later add_char or
\* add_key call fails with a logic error, and the OS makes at most one table
\* for it.
C19_SealedAfterHaccel ==
  /\ (acLast.op \in {"add_char", "add_key"} /\ acLast.sealed) =>
       acLast.err = "logic_error"
  /\ acBuilt <= 1

\* ------------------------------------------------------- wl::com::lib
Running == { o \in Objects : obj[o].life = "alive" /\ obj[o].running }

Categories ==
  [system_error |-> "System exception", runtime_error |-> "Runtime exception",
   invalid_argument |-> "Invalid argument exception", logic_error |-> "Logic exception",
   exception |-> "Exception"]

\* the caption of the most specific category the error belongs to: the class
\* among the categories it is an instance of that derives from all the others
\* it is an instance of
MostSpecific(raised) ==
  LET in == DOMAIN Categories \cap Bases(raised)
  IN IF in = {} THEN "Unknown exception"
     ELSE Categories[CHOOSE c \in in : in \subseteq Bases(c)]

\* C22: an error raised by a lambda is reported in exactly one MessageBox whose
\* caption is that of its most specific category ('Unknown exception' for what
\* is no std::exception), and the text carries the error code exactly for a
\* system error.
C22_MostSpecificCategory ==
  /\ (det.op = "run_thread_detached" /\ det.started /\ det.raised # "none") =>
       /\ det.fault.boxes = << MostSpecific(det.raised) >>
       /\ det.fault.texts = << IF "system_error" \in Bases(det.raised) THEN "code_and_what"
                               ELSE IF Bases(det.raised) = {} THEN "fixed" ELSE "what" >>
  /\ (last.op = "deliver" /\ last.raised # "none") =>
       last.fault.boxes = << MostSpecific(last.raised) >>
  /\ \A c \in Calls : calls[c].cb = "raised" => Len(calls[c].fault.boxes) = 1

\* a system error was raised in a detached thread: it is a runtime error and a
\* std::exception as well, and was reported as a system error with its code
C22_Witness ==
  /\ det.op = "run_thread_detached" /\ det.started /\ det.raised = "system_error"
  /\ det.fault.boxes = << "System exception" >>
  /\ det.fault.texts = << "code_and_what" >>

\* ------------------------------------------------------- add against find
\* C23: a registration adds to a table only while the instance is not LIVE
\* (its handle is null), and every lookup a trampoline makes in a table of the
\* instance is made while it is LIVE (its handle is set).
C23_AddAndFindApart ==
  /\ (last.op \in RegOps /\ last.err = "none") => hWnd = 0
  /\ last.op = "deliver" =>
       \A i \in DOMAIN last.findsAt : last.findsAt[i] # 0

\* ------------------------------------------------------- final destruction
\* C24: when WM_NCDESTROY reaches the trampoline of the instance's window, exec
\* runs for it while the handle member still names the window and the window's
\* slot still holds the instance (so a lambda registered for WM_NCDESTROY runs
\* then, once), and when the trampoline returns the slot is cleared and the
\* handle member is null, whether or not the lambda raised.
C24_ClearedAfterDispatch ==
  (last.op = "deliver" /\ kind # "control" /\ last.m.msg = WM_NCDESTROY /\ last.owner) =>
    /\ last.findsAt = << last.h >>
    /\ last.slotAt = Self
    /\ RegisteredFor(last.m) \in Cbs => last.ran = << RegisteredFor(last.m) >>
    /\ hWnd = 0 /\ slot[last.h] = 0

\* a dialog's lambda for WM_NCDESTROY ran, and raised, during the last dispatch
C24_Witness ==
  /\ last.op = "deliver" /\ kind = "dialog" /\ last.m.msg = WM_NCDESTROY /\ last.owner
  /\ last.ran = << "g" >> /\ last.threw
  /\ last.findsAt = << last.h >>
  /\ hWnd = 0 /\ slot[last.h] = 0

\* C25: once the control's window got WM_NCDESTROY (through the subclass
\* procedure, or from the OS alone when no subclass is installed) the wrapper's
\* handle member is null: it never names a window that is gone.
C25_ControlHandleCleared ==
  kind = "control" => (hWnd # 0 => wnd[hWnd] # "gone")

\* ------------------------------------------------------- modal dialogs
\* C26: dialog_box_param raises a system error exactly when DialogBoxParam
\* failed: a failure is never handed back as a return value, and a success
\* raises nothing.
C26_FailureSurfaced ==
  (last.op = "dialog_box_param" /\ last.osCalled) =>
    (last.err = "system_error" <=> ~last.osOk)

\* ------------------------------------------------------- wl::file_mapped
Min(a, b) == IF a < b THEN a ELSE b

\* C27: read_to_buffer with an offset inside the file copies
\* min(numBytes, size - offset) bytes, for every numBytes a size_t can hold
\* (-1: to the end of the file), and none from beyond the end of the file;
\* with an offset at or past the end it raises an invalid-argument error and
\* leaves the buffer as it was.
C27_ReadWithinFile ==
  mLast.op = "read_to_buffer" =>
    IF mLast.offset < mSz
    THEN /\ mLast.err = "none"
         /\ mLast.copied = Min(mLast.numBytes, mSz - mLast.offset)
         /\ ~mLast.beyond
    ELSE /\ mLast.err = "invalid_argument"
         /\ mBuf = mLast.bufBefore

Invoke(h, k) ==
  LET r == store_find(h, k)
  IN IF r.ptr = 0 THEN << >> ELSE call_func(r.handlers, r.ptr)

\* the positions of h that hold a forwarding thunk
Thunks(h) == { i \in DOMAIN h : h[i].func.kind = "thunk" }

\* C29: an add call changes what a lookup invokes for the keys it registers
\* and for no other key, and it leaves every entry the table already held,
\* thunks and the entries they point to included, where it was: the callback a
\* thunk forwards to is the one stored by the thunk's own registration,
\* whatever is added later under the first key of that registration.
C29_ThunksStayBound ==
  [][stLast'.op \in {"add", "add_list"} =>
       /\ \A k \in StoreKeys :
            (\A i \in DOMAIN stLast'.ids : stLast'.ids[i] # k) =>
              Invoke(st', k) = Invoke(st, k)
       /\ Len(st') > Len(st)
       /\ Tail(SubSeq(st', 1, Len(st))) = Tail(st)
       /\ \A i \in Thunks(st) :
            call_func(st', i - 1) = call_func(st, i - 1)]_vars

\* add(k1, cb2) was called after add({k1, k2}, cb1): a lookup of k1 now runs
\* cb2, and the thunk under k2 still runs cb1
C29_Witness ==
  /\ stLast.op = "add"
  /\ \E i \in Thunks(st) :
       LET first == st[i].func.funcIdx + 1
       IN /\ st[first].id = stLast.ids[1]
          /\ st[i].id # stLast.ids[1]
          /\ st[first].func.kind = "user" /\ st[first].func.cb # stLast.cb
          /\ Invoke(st, st[i].id) = << st[first].func.cb >>
          /\ Invoke(st, stLast.ids[1]) = << stLast.cb >>

\* ------------------------------------------------------- wl::window_modal
\* C21: the modal loop retrieves a message only while the modal's handle is
\* set, and show() returns only once the handle was cleared by WM_NCDESTROY or
\* a WM_QUIT was retrieved, which the loop posts again with the same exit code.
C21_LoopUntilDestroyed ==
  /\ (mdLast.op = "loop" /\ mdLast.got) => mdLast.hwndAtGet # 0
  /\ pc = "returned" =>
       \/ mdHwnd = 0
       \/ /\ mdLast.op = "loop" /\ mdLast.got
          /\ mdLast.retrieved.m.msg = WM_QUIT
          /\ mdLast.reposted = << mdLast.retrieved.m.wp >>

\* C30: when show() has returned or raised after it disabled the parent, the
\* parent is enabled again.
C30_ParentEnabledAgain ==
  pc \in {"returned", "raised"} => parentEnabled

====
